---------------------------- MODULE Spec2Model ----------------------------
(***************************************************************************)
(* A model of the fetch client, the back-test engine, the analysis         *)
(* pipeline and the ingestion layer of the financial intelligence          *)
(* platform.  Each subsystem has its own variables and its own             *)
(* specification (SpecFetch, SpecNearest, SpecBacktest, SpecPipeline,      *)
(* SpecIngest); under one subsystem's specification the variables of the   *)
(* others keep their initial values.                                       *)
(***************************************************************************)
EXTENDS Integers, Sequences, FiniteSets, TLC

VARIABLES
    \* ---- fetch client: BaseScraper._make_request (scrapers/base.py) ----
    rq_pc,        \* "idle" | "loop" | "returned" | "raised"
    attempt,      \* the value the for loop gives `attempt` next
    history,      \* one entry per request sent: its outcome and the sleep after it
    rq_value,     \* what the call returned: "none" | "response" | "failure"
    \* ---- find_nearest_price (services/backtest.py), called on its own ----
    nr_pc,        \* "input" | "called"
    nr_prices,    \* the price series: a function from days to prices
    nr_target,    \* target_date, a day number
    nr_offset,    \* max_days_offset
    nr_found,     \* the day whose price was returned: None or Some(day)
    \* ---- back-test engine (services/backtest.py) ----
    today,        \* the current day number (day 0 is a Monday)
    ticks,        \* how many times the clock has advanced
    market,       \* the price path the market follows
    signals,      \* the signals table, in id order
    bt_results,   \* the backtest_results table, in insertion order
    bt_pc,        \* per run: "idle" | "running"
    bt_queue,     \* per run: the ids of `untested` not yet iterated over
    \* ---- analysis pipeline (agents/pipeline.py) ----
    articles,     \* the articles table, in id order
    pl_signals,   \* the Signal rows the pipeline has committed
    pl_pc,        \* per run: "idle" | "running" | "returned" | "raised"
    pl_batch,     \* per run: the ids the run's query selected
    pl_queue,     \* per run: the selected ids not yet iterated over
    \* ---- ingestion (services/ingestion.py, ingestion_orchestrator.py) ----
    autoflush,    \* the Session's autoflush setting
    upstream,     \* per source: the links its feed, page or listing shows
    art_rows,     \* the rows of the articles table, in insertion order
    post_rows,    \* the rows of the sentiment_data table, in insertion order
    ing_pc,       \* the cycle's next step: "feeds" | "news" | "sentiment"
    ing_run,      \* the number of ingestion cycles that are over
    ing_last,     \* per source: None or Some(report of its latest ingestion)
    ing_failed,   \* some cycle so far had a fetch or a commit fail
    \* ---- scheduler (services/scheduler.py) ----
    clock,        \* datetime.utcnow(): [weekday, hour]
    runs,         \* per job id and executor slot: the state of its latest run
    registered,   \* the job ids the scheduler holds
    sch_event,    \* what the scheduler did last: [job, kind]
    \* ---- ingestion runs side by side (ingest_feed, ingest_all_news) ----
    rc_pc,        \* per run: "idle" | "loop" | "save" | "returned" | "raised"
    rc_kind,      \* per run: "feed" (ingest_feed) | "web" (one scraper)
    rc_entries,   \* per run: the feed entries not yet looked at
    rc_new,       \* per run: new_articles, or the articles scrape() returned
    rc_todo,      \* per run: the scraped articles not yet saved
    \* ---- one category run over its adapters ----
    ad_pc,        \* "idle" | "feeds" | "news" | "feeds_returned"
                  \*        | "news_returned"
    ad_left,      \* the sources the loop has not reached yet
    ad_results,   \* results: source name -> count
    ad_invoked,   \* the sources whose adapter was called, in call order
    ad_failed,    \* the sources whose adapter raised or could not store
    \* ---- the analysis stages of one article ----
    st_pc,        \* "start" | "sentiment" | "signal" | "store" | "returned"
                  \*         | "raised"
    st_out,       \* what the last call_claude_json gave
    st_entities,  \* entities
    st_sentiment, \* sentiment: "none" | "model" | "neutral_0.5"
    st_signals,   \* raw_signals
    st_themes,    \* raw_themes
    \* ---- decoding one model response ----
    dc_text,      \* the text call_claude returned
    dc_raw,       \* raw
    dc_pc,        \* "fence" | "direct" | "array" | "object" | "returned"
                  \*         | "raised"
    dc_result,    \* the text that was parsed and returned, if any
    \* ---- one adapter call with a limit ----
    lm_pc,        \* "input" | "called" | "raised"
    lm_in,        \* the adapter, the caller's limit, what the services list
    lm_returned,  \* the records the adapter returned
    \* ---- theme detection ----
    th_pc,        \* "idle" | "loop" | "returned" | "raised"
    th_entry,     \* "none" | "detect_themes" | "trigger"
    th_n,         \* len(articles)
    th_calls,     \* model calls made for this request
    th_todo,      \* raw_themes still to go through
    th_added,     \* the Themes added to the session, in order
    th_created,   \* themes_created / the length of the list returned
    th_themes,    \* the persisted Themes, each as the set of its Articles
    \* ---- repeated cycles ----
    cy_pc,        \* "idle" | "ingested" | "pipeline" | "sentiment" | "closing"
    cy_new        \* total_new of the cycle

fetchVars == <<rq_pc, attempt, history, rq_value>>
nearVars  == <<nr_pc, nr_prices, nr_target, nr_offset, nr_found>>
btVars    == <<today, ticks, market, signals, bt_results, bt_pc, bt_queue>>

plVars    == <<articles, pl_signals, pl_pc, pl_batch, pl_queue>>

ingVars   == <<autoflush, upstream, art_rows, post_rows, ing_pc, ing_run,
               ing_last, ing_failed>>

schVars   == <<clock, runs, registered, sch_event>>

rcVars    == <<rc_pc, rc_kind, rc_entries, rc_new, rc_todo>>

adVars    == <<ad_pc, ad_left, ad_results, ad_invoked, ad_failed>>

stVars    == <<st_pc, st_out, st_entities, st_sentiment, st_signals,
               st_themes>>

dcVars    == <<dc_text, dc_raw, dc_pc, dc_result>>
lmVars    == <<lm_pc, lm_in, lm_returned>>
cyVars    == <<cy_pc, cy_new>>
thVars    == <<th_pc, th_entry, th_n, th_calls, th_todo, th_added, th_created,
               th_themes>>

vars == <<fetchVars, nearVars, btVars, plVars, ingVars, schVars, rcVars,
          adVars, stVars, dcVars, lmVars, thVars, cyVars>>

-----------------------------------------------------------------------------
(* Helpers                                                                 *)

\* An optional value (Python's None or a value): <<>> or <<v>>.
None == <<>>
Some(v) == <<v>>
IsNone(o) == o = <<>>
Val(o) == o[1]

Min(S) == CHOOSE x \in S : \A y \in S : x <= y

RECURSIVE Pow2(_)
Pow2(n) == IF n = 0 THEN 1 ELSE 2 * Pow2(n - 1)

-----------------------------------------------------------------------------
(* Fetch client                                                            *)

\* max_retries: int = 3
max_retries == 3

\* The default of response.headers.get("Retry-After", 60)
RetryAfterDefault == 60

Digits == {"0", "1", "2", "3", "4", "5", "6", "7", "8", "9"}

DigitValue(c) ==
    CASE c = "0" -> 0 [] c = "1" -> 1 [] c = "2" -> 2 [] c = "3" -> 3
      [] c = "4" -> 4 [] c = "5" -> 5 [] c = "6" -> 6 [] c = "7" -> 7
      [] c = "8" -> 8 [] c = "9" -> 9

RECURSIVE DigitsValue(_)
DigitsValue(s) ==
    IF s = <<>> THEN 0
    ELSE 10 * DigitsValue(SubSeq(s, 1, Len(s) - 1)) + DigitValue(s[Len(s)])

\* Python's int(str): an optional sign followed by decimal digits; anything
\* else raises ValueError.
PyInt(s) ==
    LET signed == Len(s) > 0 /\ s[1] \in {"-", "+"}
        body   == IF signed THEN Tail(s) ELSE s
    IN  IF Len(body) > 0 /\ \A i \in 1..Len(body) : body[i] \in Digits
        THEN [ok |-> TRUE,
              val |-> IF signed /\ s[1] = "-" THEN 0 - DigitsValue(body)
                      ELSE DigitsValue(body)]
        ELSE [ok |-> FALSE, val |-> 0]

\* Retry-After header values a 429 response may carry: delta-seconds, or an
\* HTTP-date (abbreviated here to its first characters), or no header.
RetryAfterHeaders ==
    { [present |-> FALSE, text |-> <<>>],
      [present |-> TRUE,  text |-> <<"3", "0">>],
      [present |-> TRUE,  text |-> <<"0">>],
      [present |-> TRUE,  text |-> <<"-", "1">>],
      [present |-> TRUE,  text |-> <<"W", "e", "d", ",">>] }

\* int(response.headers.get("Retry-After", 60))
RetryAfter(h) ==
    IF h.present THEN PyInt(h.text) ELSE [ok |-> TRUE, val |-> RetryAfterDefault]

\* HTTP statuses a response may carry.
Statuses == {200, 400, 403, 404, 429, 500, 503}

\* response.raise_for_status(): HTTPError for 4xx and 5xx
RaisesForStatus(code) == code >= 400 /\ code < 600

\* if e.response.status_code in [403, 404]
PermanentMutant(code) == code \in {404}
IsPermanent(code) == code \in {403, 404}

\* if attempt < self.max_retries - 1: time.sleep(2 ** attempt)
BackoffMutant(a) == Some(Pow2(a))
Backoff(a) == IF a < max_retries - 1 THEN Some(Pow2(a)) ELSE None

Entry(kind, code, slept) == [kind |-> kind, code |-> code, slept |-> slept]

notFetch == <<nearVars, btVars, plVars, ingVars, schVars, rcVars, adVars, stVars, dcVars, lmVars, thVars, cyVars>>

FetchInit ==
    /\ rq_pc = "idle"
    /\ attempt = 0
    /\ history = <<>>
    /\ rq_value = "none"

\* _make_request is called; the for loop is entered.
MakeRequest ==
    /\ UNCHANGED notFetch
    /\ rq_pc \in {"idle", "returned", "raised"}
    /\ rq_pc' = "loop"
    /\ attempt' = 0
    /\ history' = <<>>
    /\ rq_value' = "none"

\* An iteration whose response has a status below 400: returned to the caller.
RequestSucceeds ==
    /\ UNCHANGED notFetch
    /\ rq_pc = "loop" /\ attempt < max_retries
    /\ \E code \in Statuses :
          /\ code # 429 /\ ~RaisesForStatus(code)
          /\ history' = Append(history, Entry("status", code, None))
    /\ rq_pc' = "returned"
    /\ rq_value' = "response"
    /\ attempt' = attempt

\* An iteration answered 429: int() of the Retry-After header, time.sleep of
\* it, `continue`.  int() of a non-integer text and time.sleep of a negative
\* number raise ValueError, which no except clause of the loop catches.
RequestRateLimited ==
    /\ UNCHANGED notFetch
    /\ rq_pc = "loop" /\ attempt < max_retries
    /\ \E h \in RetryAfterHeaders :
          LET ra == RetryAfter(h) IN
          IF ra.ok /\ ra.val >= 0
          THEN /\ history' = Append(history, Entry("status", 429, Some(ra.val)))
               /\ attempt' = attempt + 1
               /\ rq_pc' = "loop"
          ELSE /\ history' = Append(history, Entry("status", 429, None))
               /\ attempt' = attempt
               /\ rq_pc' = "raised"
    /\ rq_value' = "none"

\* except requests.exceptions.Timeout
RequestTimesOut ==
    /\ UNCHANGED notFetch
    /\ rq_pc = "loop" /\ attempt < max_retries
    /\ history' = Append(history, Entry("timeout", 0, Backoff(attempt)))
    /\ attempt' = attempt + 1
    /\ UNCHANGED <<rq_pc, rq_value>>

\* except requests.exceptions.HTTPError
RequestHTTPError ==
    /\ UNCHANGED notFetch
    /\ rq_pc = "loop" /\ attempt < max_retries
    /\ \E code \in Statuses :
          /\ code # 429 /\ RaisesForStatus(code)
          /\ IF IsPermanent(code)
             THEN /\ history' = Append(history, Entry("status", code, None))
                  /\ rq_pc' = "returned"
                  /\ rq_value' = "failure"
                  /\ attempt' = attempt
             ELSE /\ history' = Append(history, Entry("status", code, Backoff(attempt)))
                  /\ attempt' = attempt + 1
                  /\ UNCHANGED <<rq_pc, rq_value>>

\* except requests.exceptions.RequestException (connection errors)
RequestConnectionError ==
    /\ UNCHANGED notFetch
    /\ rq_pc = "loop" /\ attempt < max_retries
    /\ history' = Append(history, Entry("connection", 0, Backoff(attempt)))
    /\ attempt' = attempt + 1
    /\ UNCHANGED <<rq_pc, rq_value>>

\* The for loop is exhausted: "All retry attempts failed", return None.
RetriesExhausted ==
    /\ UNCHANGED notFetch
    /\ rq_pc = "loop" /\ attempt = max_retries
    /\ rq_pc' = "returned"
    /\ rq_value' = "failure"
    /\ UNCHANGED <<attempt, history>>

FetchNext ==
    \/ MakeRequest
    \/ RequestSucceeds
    \/ RequestRateLimited
    \/ RequestTimesOut
    \/ RequestHTTPError
    \/ RequestConnectionError
    \/ RetriesExhausted

-----------------------------------------------------------------------------
(* Nearest-date price resolution                                           *)

\* for direction in [0, 1, -1, 2, -2, 3, -3, 4, -4, 5, -5]
Directions == <<0, 1, -1, 2, -2, 3, -3, 4, -4, 5, -5>>

\* The day offsets find_nearest_price adds to target_date, in the order it
\* tries them: for each offset in range(N + 1), direction + offset for every
\* direction, then offset itself.
RECURSIVE CheckOrderFrom(_, _)
CheckOrderFrom(offset, N) ==
    IF offset > N THEN <<>>
    ELSE [i \in 1..Len(Directions) |-> Directions[i] + offset]
           \o <<offset>> \o CheckOrderFrom(offset + 1, N)

\* The largest max_days_offset the model passes.
MaxOffsetArg == 5

CheckOrderTable == [n \in 0..MaxOffsetArg |-> CheckOrderFrom(0, n)]

CheckOrder(N) == CheckOrderTable[N]

\* The day whose price find_nearest_price returns: the first tried day that
\* is in the series.
NearestDate(prices, target, N) ==
    LET order == CheckOrder(N)
        hits  == {i \in 1..Len(order) : (target + order[i]) \in DOMAIN prices}
    IN  IF hits = {} THEN None ELSE Some(target + order[Min(hits)])

FindNearestMutant(prices, target, N) ==
    IF DOMAIN prices = {} THEN None ELSE Some(prices[Min(DOMAIN prices)])

\* find_nearest_price: the price of that day, None when no tried day is in
\* the series.
find_nearest_price(prices, target, N) ==
    LET d == NearestDate(prices, target, N)
    IN  IF IsNone(d) THEN None ELSE Some(prices[Val(d)])

-----------------------------------------------------------------------------
(* The market the price-history interface reports                          *)

\* Bounds of the modelled calendar.
MaxDay == 40

Days == 0..MaxDay

\* Day 0 is a Monday; the exchange is closed on Saturdays and Sundays.
IsTradingDay(d) == (d % 7) \notin {5, 6}

\* Price paths, in thousandths of a dollar: a rising, a falling and a
\* creeping market (a thousandth of a dollar a day from 100 dollars).
Paths == {"rise", "fall", "creep"}

MarketPrice(path, d) ==
    CASE path = "rise"  -> 100000 + 1000 * d
      [] path = "fall"  -> 100000 - 1000 * d
      [] path = "creep" -> 100000 + d

\* get_stock_prices: the closes of the trading days in [start, end) that
\* have happened; {} when the history is empty or the fetch raised.
get_stock_prices(path, now, start, end, fails) ==
    IF fails THEN <<>>
    ELSE [d \in {x \in Days : IsTradingDay(x) /\ start <= x /\ x < end /\ x <= now}
            |-> MarketPrice(path, d)]

-----------------------------------------------------------------------------
(* Back-test of one signal                                                 *)

\* max_days_offset: int = 5
DefaultOffset == 5

Horizons == {1, 7, 30}

\* Python's round(): to the nearest integer multiple, ties to even.  num/den
\* with den > 0.
RoundHalfEven(num, den) ==
    LET q == num \div den
        r == num - q * den
    IN  IF 2 * r < den THEN q
        ELSE IF 2 * r > den THEN q + 1
        ELSE IF q % 2 = 0 THEN q ELSE q + 1

\* round(price, 2): thousandths of a dollar to cents
RoundPrice(p) == RoundHalfEven(p, 10)

\* round((price_h - price_at_signal) / price_at_signal * 100, 2), in
\* hundredths of a percent
RoundChange(ph, p0) == RoundHalfEven((ph - p0) * 10000, p0)

\* str.lower() on the direction texts of the model
Lower(s) == CASE s = "UP" -> "up" [] s = "DOWN" -> "down" [] OTHER -> s

\* accurate_h = (change_h > 0) == predicted_up; the change is positive
\* exactly when the horizon price is above the signal price.
AccurateMutant(ph, p0, predicted_up) == (ph >= p0) = predicted_up
Accurate(ph, p0, predicted_up) == (ph > p0) = predicted_up

\* backtest_signal: None, or Some(the BacktestResult it adds and commits).
\* date_at_signal and date records the days the prices were taken from.
backtest_signal(sig, prices) ==
    IF sig.stock_ticker = "" \/ IsNone(sig.direction) \/ Val(sig.direction) = ""
    THEN None
    ELSE IF DOMAIN prices = {} THEN None
    ELSE
    LET signal_date == sig.created_at
        price_at_signal == find_nearest_price(prices, signal_date, DefaultOffset)
        price(h) == find_nearest_price(prices, signal_date + h, DefaultOffset)
        predicted_up == Lower(Val(sig.direction)) = "up"
    IN  IF IsNone(price_at_signal) THEN None
        ELSE Some(
          [ signal_id |-> sig.id,
            ticker |-> sig.stock_ticker,
            signal_date |-> signal_date,
            direction_predicted |-> Val(sig.direction),
            price_at_signal |-> RoundPrice(Val(price_at_signal)),
            price |-> [h \in Horizons |->
                IF IsNone(price(h)) THEN None ELSE Some(RoundPrice(Val(price(h))))],
            actual_change |-> [h \in Horizons |->
                IF IsNone(price(h)) THEN None
                ELSE Some(RoundChange(Val(price(h)), Val(price_at_signal)))],
            accurate |-> [h \in Horizons |->
                IF IsNone(price(h)) THEN None
                ELSE Some(Accurate(Val(price(h)), Val(price_at_signal), predicted_up))],
            date_at_signal |-> NearestDate(prices, signal_date, DefaultOffset),
            date |-> [h \in Horizons |->
                NearestDate(prices, signal_date + h, DefaultOffset)] ])

-----------------------------------------------------------------------------
(* Validation runs: run_backtest_for_unvalidated                           *)

\* Bounds of the back-test model.
MaxSignals == 1
MaxSignalDay == 0
MaxTicks == 2

\* The runs that may be in progress: the scheduled cycle's back-test step
\* and POST /api/backtest/run, each with its own session.
Runners == {"scheduled", "ondemand"}

\* The days the clock may advance by in one step.
TickJumps == {1, 7, 30}

\* What the pipeline may have stored in a Signal: sig.get("ticker", ""),
\* sig.get("direction", "") (None for a JSON null).
SignalKinds ==
    { [stock_ticker |-> "RY.TO", direction |-> Some("up")],
      [stock_ticker |-> "RY.TO", direction |-> Some("down")],
      [stock_ticker |-> "RY.TO", direction |-> Some("UP")],
      [stock_ticker |-> "RY.TO", direction |-> Some("")],
      [stock_ticker |-> "RY.TO", direction |-> None],
      [stock_ticker |-> "",      direction |-> Some("up")] }

RECURSIVE Ascending(_)
Ascending(S) ==
    IF S = {} THEN <<>> ELSE <<Min(S)>> \o Ascending(S \ {Min(S)})

\* tested_signal_ids = [r[0] for r in db.query(BacktestResult.signal_id).all()]
TestedSignalIds == {bt_results[i].signal_id : i \in 1..Len(bt_results)}

\* untested: Signal.id.notin_(tested_signal_ids), Signal.direction.isnot(None)
UntestedMutant ==
    Ascending({i \in 1..Len(signals) : ~IsNone(signals[i].direction)})
Untested ==
    Ascending({i \in 1..Len(signals) :
                  i \notin TestedSignalIds /\ ~IsNone(signals[i].direction)})

notBt == <<fetchVars, nearVars, plVars, ingVars, schVars, rcVars, adVars, stVars, dcVars, lmVars, thVars, cyVars>>

BacktestInit ==
    /\ today = 0
    /\ ticks = 0
    /\ market \in Paths
    /\ signals = <<>>
    /\ bt_results = <<>>
    /\ bt_pc = [r \in Runners |-> "idle"]
    /\ bt_queue = [r \in Runners |-> <<>>]

NoRunInProgress == \A r \in Runners : bt_pc[r] = "idle"

\* The pipeline persists a Signal: created_at = datetime.utcnow().
SignalCreated ==
    /\ UNCHANGED notBt
    /\ Len(signals) < MaxSignals /\ today <= MaxSignalDay
    /\ \E k \in SignalKinds :
          signals' = Append(signals,
              [id |-> Len(signals) + 1, stock_ticker |-> k.stock_ticker,
               direction |-> k.direction, created_at |-> today])
    /\ UNCHANGED <<today, ticks, market, bt_results, bt_pc, bt_queue>>

\* Days pass (between runs).
Tick ==
    /\ UNCHANGED notBt
    /\ NoRunInProgress /\ ticks < MaxTicks
    /\ \E j \in TickJumps : today + j <= MaxDay /\ today' = today + j
    /\ ticks' = ticks + 1
    /\ UNCHANGED <<market, signals, bt_results, bt_pc, bt_queue>>

\* run_backtest_for_unvalidated starts: the two queries.
StartBacktestRun(r) ==
    /\ UNCHANGED notBt
    /\ bt_pc[r] = "idle"
    /\ bt_pc' = [bt_pc EXCEPT ![r] = "running"]
    /\ bt_queue' = [bt_queue EXCEPT ![r] = Untested]
    /\ UNCHANGED <<today, ticks, market, signals, bt_results>>

\* One iteration of `for i, signal in enumerate(untested)`.
BacktestNextSignal(r) ==
    /\ UNCHANGED notBt
    /\ bt_pc[r] = "running" /\ bt_queue[r] # <<>>
    /\ \E fails \in BOOLEAN :
          LET sig    == signals[Head(bt_queue[r])]
              prices == get_stock_prices(market, today, sig.created_at - 5,
                                         sig.created_at + 35, fails)
              result == backtest_signal(sig, prices)
          IN  bt_results' = IF IsNone(result) THEN bt_results
                            ELSE Append(bt_results, Val(result))
    /\ bt_queue' = [bt_queue EXCEPT ![r] = Tail(bt_queue[r])]
    /\ UNCHANGED <<today, ticks, market, signals, bt_pc>>

\* The loop is over: the counts are returned.
FinishBacktestRun(r) ==
    /\ UNCHANGED notBt
    /\ bt_pc[r] = "running" /\ bt_queue[r] = <<>>
    /\ bt_pc' = [bt_pc EXCEPT ![r] = "idle"]
    /\ UNCHANGED <<today, ticks, market, signals, bt_results, bt_queue>>

\* A run that starts when no other run is in progress.
StartSequentialRun(r) == NoRunInProgress /\ StartBacktestRun(r)

BacktestNext ==
    \/ SignalCreated
    \/ Tick
    \/ \E r \in Runners : StartSequentialRun(r)
    \/ \E r \in Runners : BacktestNextSignal(r)
    \/ \E r \in Runners : FinishBacktestRun(r)

-----------------------------------------------------------------------------
(* find_nearest_price on its own, over bounded inputs                      *)

\* Bounds of the inputs.
MaxSeriesLen == 2
MaxNearDay == 25

NearDays == 0..MaxNearDay

\* A Friday, a Saturday, a Sunday and a Wednesday.
NearTargets == {11, 12, 13, 9}

\* Series over NearDays: every set of at most MaxSeriesLen days, every
\* trading-day series with the days before a first day or after a last day
\* missing.
RECURSIVE SmallSets(_)
SmallSets(k) ==
    IF k = 0 THEN {{}}
    ELSE LET prev == SmallSets(k - 1)
         IN  prev \cup {s \cup {d} : s \in prev, d \in NearDays}

NearSeriesDays ==
    SmallSets(MaxSeriesLen)
      \cup {{d \in NearDays : IsTradingDay(d) /\ d >= lo} : lo \in NearDays}
      \cup {{d \in NearDays : IsTradingDay(d) /\ d <= hi} : hi \in NearDays}

notNear == <<fetchVars, btVars, plVars, ingVars, schVars, rcVars, adVars, stVars, dcVars, lmVars, thVars, cyVars>>

NearestInit ==
    /\ nr_pc = "input"
    /\ nr_target \in NearTargets
    /\ nr_offset \in 0..MaxOffsetArg
    /\ \E S \in NearSeriesDays : nr_prices = [d \in S |-> MarketPrice("rise", d)]
    /\ nr_found = None

NearIdle ==
    /\ nr_pc = "input"
    /\ nr_target = 0
    /\ nr_offset = 0
    /\ nr_prices = <<>>
    /\ nr_found = None

\* find_nearest_price(prices, target_date, max_days_offset) is called.
FindNearestPrice ==
    /\ UNCHANGED notNear
    /\ nr_pc = "input"
    /\ nr_pc' = "called"
    /\ nr_found' = NearestDate(nr_prices, nr_target, nr_offset)
    /\ UNCHANGED <<nr_prices, nr_target, nr_offset>>

NearestNext == FindNearestPrice

-----------------------------------------------------------------------------
(* Analysis pipeline: process_article and process_unprocessed_articles     *)

\* Bounds of the pipeline model.
MaxArticles == 2
MaxRawSignals == 2
PipelineLimit == 2

\* The runs that may be in progress: the scheduled cycle's pipeline step and
\* POST /api/signals/process, each with its own session.
PipelineRunners == {"scheduled", "ondemand"}

\* What extract_entities may return: an empty list (also its fallback), a
\* list of objects, a list holding something that is no object.
EntityOutputs == {"zero", "some", "malformed"}

\* What analyze_sentiment may return: an object whose "sentiment" is a text
\* (also its fallback), or one whose "sentiment" is null.
SentimentOutputs == {"ok", "null"}

\* The elements generate_signals may return: an object with usable fields, an
\* object with null for ticker or confidence, something that is no object.
RawSignalKinds == {"ok", "nullcol", "nondict"}

RECURSIVE SeqsUpTo(_, _)
SeqsUpTo(S, n) ==
    IF n = 0 THEN {<<>>}
    ELSE LET prev == SeqsUpTo(S, n - 1)
         IN  prev \cup {Append(s, x) : s \in {t \in prev : Len(t) = n - 1}, x \in S}

RawSignalLists == SeqsUpTo(RawSignalKinds, MaxRawSignals)

\* if not entities
StopsAfterEntitiesMutant(ent) == FALSE
StopsAfterEntities(ent) == ent = "zero"

\* The stages process_article calls.  analyze_sentiment builds entities_str
\* with e.get(...) outside its try: it raises on an entity that is no object.
StagesCalled(ent) ==
    IF StopsAfterEntities(ent) THEN {"entity"}
    ELSE IF ent = "malformed" THEN {"entity", "sentiment"}
    ELSE {"entity", "sentiment", "signal"}

\* sig.get(...) raises AttributeError on an element that is no object.
FirstNonDict(raw) ==
    LET bad == {i \in 1..Len(raw) : raw[i] = "nondict"}
    IN  IF bad = {} THEN 0 ELSE Min(bad)

\* The Signals db.add()ed by the loop over raw_signals before it ends or raises.
AddedSignals(raw) ==
    IF FirstNonDict(raw) = 0 THEN raw ELSE SubSeq(raw, 1, FirstNonDict(raw) - 1)

\* A Signal row satisfies the NOT NULL columns stock_ticker, sentiment,
\* confidence (models.py).
SignalRowValid(sig, sent) == sig = "ok" /\ sent = "ok"

\* db.commit(): the flush inserts every pending Signal; one rejected row
\* fails the commit, which rolls the whole transaction back and raises.
CommitSucceeds(pending, sent) ==
    \A i \in 1..Len(pending) : SignalRowValid(pending[i], sent)

\* process_article(article, db): what it leaves behind.
\*   raised:   it raised (a stage or sig.get raised, or its commit failed)
\*   pending:  the Signals still pending in the session when it raised
\*   stored:   the Signals its commit persisted
\*   processed: its commit persisted processed = True
process_article(ent, sent, raw) ==
    IF StopsAfterEntities(ent)
    THEN [raised |-> FALSE, pending |-> <<>>, stored |-> <<>>, processed |-> TRUE]
    ELSE IF ent = "malformed"
    THEN [raised |-> TRUE, pending |-> <<>>, stored |-> <<>>, processed |-> FALSE]
    ELSE IF FirstNonDict(raw) # 0
    THEN [raised |-> TRUE, pending |-> AddedSignals(raw), stored |-> <<>>,
          processed |-> FALSE]
    ELSE IF CommitSucceeds(raw, sent)
    THEN [raised |-> FALSE, pending |-> <<>>, stored |-> raw, processed |-> TRUE]
    ELSE [raised |-> TRUE, pending |-> <<>>, stored |-> <<>>, processed |-> FALSE]

\* except Exception: article.processed = True; db.commit().  The commit
\* flushes what process_article left pending in the session.
\*   escaped: the handler's own commit raised, out of the loop
HandlerCommit(pending, sent) == CommitSucceeds(pending, sent)

\* One iteration of the loop of process_unprocessed_articles.
Iteration(ent, sent, raw) ==
    LET pa == process_article(ent, sent, raw) IN
    IF ~pa.raised
    THEN [stored |-> pa.stored, processed |-> pa.processed, escaped |-> FALSE]
    ELSE IF HandlerCommit(pa.pending, sent)
    THEN [stored |-> pa.pending, processed |-> TRUE, escaped |-> FALSE]
    ELSE [stored |-> <<>>, processed |-> FALSE, escaped |-> TRUE]

\* Article.processed == False, order_by(published_at.desc()), limit(limit):
\* the newest unprocessed articles first (ids grow with published_at).
RECURSIVE Descending(_)
Descending(S) ==
    IF S = {} THEN <<>>
    ELSE LET m == CHOOSE x \in S : \A y \in S : y <= x
         IN  <<m>> \o Descending(S \ {m})

FirstN(s, n) == SubSeq(s, 1, IF Len(s) < n THEN Len(s) ELSE n)

SelectUnprocessed(limit) ==
    FirstN(Descending({i \in 1..Len(articles) : ~articles[i].processed}), limit)

notPl == <<fetchVars, nearVars, btVars, ingVars, schVars, rcVars, adVars, stVars, dcVars, lmVars, thVars, cyVars>>

PipelineInit ==
    /\ articles = <<>>
    /\ pl_signals = <<>>
    /\ pl_pc = [r \in PipelineRunners |-> "idle"]
    /\ pl_batch = [r \in PipelineRunners |-> <<>>]
    /\ pl_queue = [r \in PipelineRunners |-> <<>>]

NoPipelineRun == \A r \in PipelineRunners : pl_pc[r] # "running"

\* Ingestion persists an Article with processed = False.
ArticleIngested ==
    /\ UNCHANGED notPl
    /\ Len(articles) < MaxArticles
    /\ articles' = Append(articles,
           [id |-> Len(articles) + 1, processed |-> FALSE,
            entities |-> "unseen", calls |-> {}])
    /\ UNCHANGED <<pl_signals, pl_pc, pl_batch, pl_queue>>

\* process_unprocessed_articles(db, limit) starts: the query.
StartPipelineRun(r) ==
    /\ UNCHANGED notPl
    /\ pl_pc[r] # "running"
    /\ \E limit \in 1..PipelineLimit :
          LET sel == SelectUnprocessed(limit) IN
          /\ pl_batch' = [pl_batch EXCEPT ![r] = sel]
          /\ pl_queue' = [pl_queue EXCEPT ![r] = sel]
    /\ pl_pc' = [pl_pc EXCEPT ![r] = "running"]
    /\ UNCHANGED <<articles, pl_signals>>

\* One iteration of `for i, article in enumerate(articles)`: process_article
\* inside try, the handler on an exception.
ProcessNextArticle(r) ==
    /\ UNCHANGED notPl
    /\ pl_pc[r] = "running" /\ pl_queue[r] # <<>>
    /\ \E ent \in EntityOutputs, sent \in SentimentOutputs, raw \in RawSignalLists :
          LET a   == Head(pl_queue[r])
              it  == Iteration(ent, sent, raw)
          IN  /\ articles' = [articles EXCEPT ![a] =
                     [@ EXCEPT !.processed = @ \/ it.processed,
                               !.entities = ent,
                               !.calls = StagesCalled(ent)]]
              /\ pl_signals' = pl_signals \o
                     [i \in 1..Len(it.stored) |-> [article_id |-> a]]
              /\ pl_pc' = [pl_pc EXCEPT ![r] = IF it.escaped THEN "raised" ELSE @]
    /\ pl_queue' = [pl_queue EXCEPT ![r] = Tail(pl_queue[r])]
    /\ UNCHANGED pl_batch

\* The loop is over: the counts are returned.
FinishPipelineRun(r) ==
    /\ UNCHANGED notPl
    /\ pl_pc[r] = "running" /\ pl_queue[r] = <<>>
    /\ pl_pc' = [pl_pc EXCEPT ![r] = "returned"]
    /\ UNCHANGED <<articles, pl_signals, pl_batch, pl_queue>>

\* A run that starts when no other run is in progress.
StartSequentialPipelineRun(r) == NoPipelineRun /\ StartPipelineRun(r)

PipelineNext ==
    \/ ArticleIngested
    \/ \E r \in PipelineRunners : StartSequentialPipelineRun(r)
    \/ \E r \in PipelineRunners : ProcessNextArticle(r)
    \/ \E r \in PipelineRunners : FinishPipelineRun(r)

-----------------------------------------------------------------------------
(* Ingestion: ingest_all_feeds, ingest_all_news, ingest_sentiment          *)

\* Bounds of the ingestion model.
MaxLinks == 2
MaxLimit == 1
MaxCycles == 2

\* The links upstream may show.  Every feed entry has a link, every anchor of
\* a section page is an article link, every child of a listing a permalink.
Urls == {"u1", "u2"}

\* One RSS feed, one web news scraper, one subreddit.  TwitterScraper returns
\* [] without a bearer token, which is the configured default.
Sources == {"rss", "web", "reddit"}

LinkLists == SeqsUpTo(Urls, MaxLinks)

\* len(content) < 10: the posts whose title and text are too short to keep.
ShortPosts == {"u2"}

\* hashlib.sha256(url.encode()).hexdigest(): distinct links, distinct hashes.
hash_url(url) == <<"sha256", url>>

\* Article(...) and SentimentData(...): the columns the dedup works on.
Row(url, source) == [url |-> url, url_hash |-> hash_url(url), source |-> source]

Hashes(rows) == {rows[i].url_hash : i \in 1..Len(rows)}

UrlsOf(rows) == [i \in 1..Len(rows) |-> rows[i].url]

\* db.query(...).filter(url_hash == h).first(): with autoflush the pending
\* rows are flushed before the query and found by it.
Existing(h, rows, pending) ==
    h \in Hashes(rows) \/ (autoflush /\ h \in Hashes(pending))

CommitOkMutant(rows, pending) == TRUE

\* url_hash is unique: a commit that would store a hash twice fails and is
\* rolled back as a whole.
CommitOk(rows, pending) ==
    LET all == rows \o pending
    IN  \A i, j \in 1..Len(all) : i # j => all[i].url_hash # all[j].url_hash

Commit(rows, pending) == IF CommitOk(rows, pending) THEN rows \o pending ELSE rows

\* ---- RSS: ingest_feed ----

\* for entry in feed.entries
RECURSIVE FeedEntries(_, _, _, _)
FeedEntries(source, entries, rows, new_articles) ==
    IF entries = <<>> THEN new_articles
    ELSE LET url == Head(entries) IN
         IF Existing(hash_url(url), rows, new_articles)
         THEN FeedEntries(source, Tail(entries), rows, new_articles)
         ELSE FeedEntries(source, Tail(entries), rows,
                          Append(new_articles, Row(url, source)))

\* One commit after the loop; on an exception db.rollback(); new_articles is
\* returned either way.
ingest_feed(source, entries, rows) ==
    LET new_articles == FeedEntries(source, entries, rows, <<>>)
    IN  [new_articles |-> new_articles,
         committed |-> CommitOk(rows, new_articles),
         rows |-> Commit(rows, new_articles)]

\* ---- web news: scrape and the save loop of ingest_all_news ----

\* _deduplicate_url: True if the link is to be skipped.
DeduplicateMutant(url, rows, seen_urls) == url \in seen_urls
deduplicate_url(url, rows, seen_urls) ==
    url \in seen_urls \/ hash_url(url) \in Hashes(rows)

\* for link in soup.find_all("a", href=True).  `ok` holds the links whose
\* anchor text is long enough and whose article page is fetched and parsed;
\* a section page that cannot be fetched gives the same result as ok = {}.
RECURSIVE ScrapeLinks(_, _, _, _, _, _, _, _)
ScrapeLinks(source, links, limit, rows, ok, seen_urls, scraped, failed) ==
    IF links = <<>> \/ Len(scraped) >= limit
    THEN [articles |-> scraped, failed |-> failed]
    ELSE LET url == Head(links)
             seen == seen_urls \cup {url}
         IN  IF deduplicate_url(url, rows, seen_urls)
             THEN ScrapeLinks(source, Tail(links), limit, rows, ok, seen,
                              scraped, failed)
             ELSE IF url \notin ok
             THEN ScrapeLinks(source, Tail(links), limit, rows, ok, seen,
                              scraped, TRUE)
             ELSE ScrapeLinks(source, Tail(links), limit, rows, ok, seen,
                              Append(scraped, Row(url, source)), failed)

scrape(source, links, limit, rows, ok) ==
    ScrapeLinks(source, links, limit, rows, ok, {}, <<>>, FALSE)

\* for article in articles: db.add(article); db.commit(), db.rollback() on
\* an exception.
RECURSIVE SaveArticles(_, _)
SaveArticles(scraped, rows) ==
    IF scraped = <<>> THEN rows
    ELSE SaveArticles(Tail(scraped), Commit(rows, <<Head(scraped)>>))

\* ---- Reddit: scrape_subreddit_json ----

\* for child in children
RECURSIVE ListingChildren(_, _, _, _)
ListingChildren(source, children, rows, posts) ==
    IF children = <<>> THEN posts
    ELSE LET url == Head(children) IN
         IF Existing(hash_url(url), rows, posts) \/ url \in ShortPosts
         THEN ListingChildren(source, Tail(children), rows, posts)
         ELSE ListingChildren(source, Tail(children), rows,
                              Append(posts, Row(url, source)))

\* The commit after the loop is outside every try: its failure leaves
\* scrape_subreddit_json as an exception.
scrape_subreddit_json(source, children, rows) ==
    LET posts == ListingChildren(source, children, rows, <<>>)
    IN  [posts |-> posts,
         raised |-> ~CommitOk(rows, posts),
         rows |-> Commit(rows, posts)]

\* ---- the ingestion cycle ----

\* What one ingestion of a source leaves to look at: the hashes stored before
\* it, the links of the items it returned as new (its count is their
\* number), the hashes it persisted, whether it raised.
Report(before, returned, after, raised) ==
    [before |-> Hashes(before), reported |-> UrlsOf(returned),
     persisted |-> Hashes(after) \ Hashes(before), raised |-> raised]

IngestInit ==
    /\ autoflush \in BOOLEAN
    /\ upstream \in [Sources -> LinkLists]
    /\ art_rows = <<>>
    /\ post_rows = <<>>
    /\ ing_pc = "feeds"
    /\ ing_run = 0
    /\ ing_last = [s \in Sources |-> None]
    /\ ing_failed = FALSE

notIng == <<fetchVars, nearVars, btVars, plVars, schVars, rcVars, adVars, stVars, dcVars, lmVars, thVars, cyVars>>

\* Step 1 of scheduled_ingestion: ingest_all_feeds.  feedparser.parse gives
\* no entries when the feed cannot be fetched.
IngestAllFeeds ==
    /\ UNCHANGED notIng
    /\ ing_pc = "feeds" /\ ing_run < MaxCycles
    /\ \E entries \in {upstream["rss"], <<>>} :
          LET r == ingest_feed("rss", entries, art_rows) IN
          /\ art_rows' = r.rows
          /\ ing_last' = [ing_last EXCEPT !["rss"] =
                 Some(Report(art_rows, r.new_articles, r.rows, FALSE))]
          /\ ing_failed' = (ing_failed \/ entries # upstream["rss"] \/ ~r.committed)
    /\ ing_pc' = "news"
    /\ UNCHANGED <<autoflush, upstream, post_rows, ing_run>>

\* Step 2: ingest_all_news(db, limit_per_source).  results[source] is
\* len(articles), the number of articles the scraper returned.
IngestAllNews ==
    /\ UNCHANGED notIng
    /\ ing_pc = "news"
    /\ \E limit \in 1..MaxLimit, ok \in SUBSET Urls :
          LET sc    == scrape("web", upstream["web"], limit, art_rows, ok)
              saved == SaveArticles(sc.articles, art_rows)
          IN  /\ art_rows' = saved
              /\ ing_last' = [ing_last EXCEPT !["web"] =
                     Some(Report(art_rows, sc.articles, saved, FALSE))]
              /\ ing_failed' = (ing_failed \/ sc.failed
                                \/ Len(saved) # Len(art_rows) + Len(sc.articles))
    /\ ing_pc' = "sentiment"
    /\ UNCHANGED <<autoflush, upstream, post_rows, ing_run>>

\* Step 5: ingest_sentiment.  The listing request is inside a try that
\* returns no posts on a failure.
IngestSentiment ==
    /\ UNCHANGED notIng
    /\ ing_pc = "sentiment"
    /\ \E children \in {upstream["reddit"], <<>>} :
          LET r == scrape_subreddit_json("reddit", children, post_rows) IN
          /\ post_rows' = r.rows
          /\ ing_last' = [ing_last EXCEPT !["reddit"] =
                 Some(Report(post_rows, IF r.raised THEN <<>> ELSE r.posts,
                             r.rows, r.raised))]
          /\ ing_failed' = (ing_failed \/ children # upstream["reddit"] \/ r.raised)
    /\ ing_pc' = "feeds"
    /\ ing_run' = ing_run + 1
    /\ UNCHANGED <<autoflush, upstream, art_rows>>

IngestNext == IngestAllFeeds \/ IngestAllNews \/ IngestSentiment

-----------------------------------------------------------------------------
(* Scheduler: start_scheduler and its two jobs                             *)

\* Bound on the count a step of the cycle reports.
MaxNew == 1

\* add_job(..., id="news_ingestion"), add_job(..., id="stock_quotes")
JobIds == {"news_ingestion", "stock_quotes"}

\* add_job is called without max_instances: the scheduler's default applies.
max_instances == 1

\* Executor threads that could take a run of one job.
Slots == {1, 2}

\* datetime.utcnow(): weekday() is 0 for Monday.  The clock is looked at on
\* Monday, Friday, Saturday and Sunday, at the hours around the gate.
Weekdays == {0, 4, 5, 6}
Hours == {13, 14, 21, 22}
ClockTimes == [weekday : Weekdays, hour : Hours]

NextHour(h) == IF h = 22 THEN 13 ELSE IF h = 13 THEN 14 ELSE IF h = 14 THEN 21 ELSE 22
NextDay(d) == IF d = 0 THEN 4 ELSE (d + 1) % 7

\* _is_market_hours()
MarketHoursMutant(now) == TRUE
is_market_hours(now) ==
    IF now.weekday >= 5 THEN FALSE ELSE 14 <= now.hour /\ now.hour <= 21

\* The state of the latest run of a job function on a thread:
\*   pc:         "idle", the step it is at, or "finally"
\*   session:    "none" | "open" | "closed", the SessionLocal() of the run
\*   invoked_at: the now of _is_market_hours(), while the run goes on
\*   rss_new, web_new: the locals of scheduled_ingestion
\*   signals:    process_result['signals_generated']
\*   wrote:      update_stock_quotes wrote quotes
\*   log:        the steps of the run: <<step, "start" | "end" | "raise">>
\*   escaped:    an exception left the job function
\*   failed:     a step of the run raised
\*   prev_failed: a step of the run before this one, on the same thread, raised
IdleRun ==
    [pc |-> "idle", session |-> "none", invoked_at |-> None, rss_new |-> None,
     web_new |-> None, signals |-> None, wrote |-> FALSE, log |-> <<>>,
     escaped |-> FALSE, failed |-> FALSE, prev_failed |-> FALSE]

\* What a step gives: None when it raises, Some(count) when it returns.
StepOutcomes == {None} \cup {Some(n) : n \in 0..MaxNew}

Running(job) == {k \in Slots : runs[job][k].pc # "idle"}

\* The executor refuses a run of a job that has max_instances runs going.
CanSubmitMutant(n) == TRUE
CanSubmit(n) == n < max_instances

\* if total_new > 0
RunsPipelineMutant(total_new) == TRUE
RunsPipeline(total_new) == total_new > 0

\* The statement order of scheduled_ingestion.
NextStepMutant(step, total_new) ==
    CASE step = "rss" -> "pipeline"
      [] step = "pipeline" -> "web"
      [] step = "web" -> "backtest"
      [] step = "backtest" -> "sentiment"
      [] OTHER -> "finally"
NextStep(step, total_new) ==
    CASE step = "rss" -> "web"
      [] step = "web" -> IF RunsPipeline(total_new) THEN "pipeline" ELSE "sentiment"
      [] step = "pipeline" -> "backtest"
      [] step = "backtest" -> "sentiment"
      [] OTHER -> "finally"

\* The try that catches an exception of a step: the step's own (web scraping,
\* sentiment scraping) or the one around the whole job body.
CaughtByMutant(step) == "none"
CaughtBy(step) == IF step \in {"web", "sentiment"} THEN "inner" ELSE "outer"

TotalNew(run) ==
    (IF run.rss_new = None THEN 0 ELSE Val(run.rss_new))
    + (IF run.web_new = None THEN 0 ELSE Val(run.web_new))

\* One step of a run with its outcome: the locals it assigns, then where
\* control goes.  `finally` runs whether the exception was caught or not.
Advance(run, step, out) ==
    LET logged == [run EXCEPT !.log = @ \o
                       << <<step, "start">>,
                          <<step, IF out = None THEN "raise" ELSE "end">> >>,
                              !.failed = @ \/ out = None]
        stored ==
            CASE step = "rss" -> [logged EXCEPT !.rss_new = out]
              [] step = "web" ->
                   [logged EXCEPT !.web_new = IF out = None THEN Some(0) ELSE out]
              [] step = "pipeline" -> [logged EXCEPT !.signals = out]
              [] step = "update" -> [logged EXCEPT !.wrote = (out # None)]
              [] OTHER -> logged
    IN  IF out = None /\ CaughtBy(step) # "inner"
        THEN [stored EXCEPT !.pc = "finally",
                            !.escaped = (CaughtBy(step) = "none")]
        ELSE [stored EXCEPT !.pc = IF step = "update" THEN "finally"
                                   ELSE NextStep(step, TotalNew(stored))]

SchedInit ==
    /\ clock \in ClockTimes
    /\ runs = [j \in JobIds |-> [k \in Slots |-> IdleRun]]
    /\ registered = JobIds
    /\ sch_event = [job |-> "none", kind |-> "start_scheduler"]

notSch == <<fetchVars, nearVars, btVars, plVars, ingVars, rcVars, adVars, stVars, dcVars, lmVars, thVars, cyVars>>

\* Time passes.
ClockAdvances ==
    /\ UNCHANGED notSch
    /\ clock' = [weekday |-> IF clock.hour = 22 THEN NextDay(clock.weekday)
                             ELSE clock.weekday,
                 hour |-> NextHour(clock.hour)]
    /\ UNCHANGED <<runs, registered, sch_event>>

\* The interval trigger of a job fires.  The run is refused while
\* max_instances runs of the job are going; otherwise the job function is
\* called on a free thread: it returns at once (noop) or starts as `started`.
Fire(job, noop, started) ==
    /\ job \in registered
    /\ IF ~CanSubmit(Cardinality(Running(job))) \/ Running(job) = Slots
       THEN /\ sch_event' = [job |-> job, kind |-> "skipped"]
            /\ UNCHANGED runs
       ELSE IF noop
       THEN /\ sch_event' = [job |-> job, kind |-> "returned"]
            /\ UNCHANGED runs
       ELSE LET k == Min(Slots \ Running(job)) IN
            /\ runs' = [runs EXCEPT ![job][k] =
                            [started EXCEPT !.prev_failed = runs[job][k].failed]]
            /\ sch_event' = [job |-> job, kind |-> "started"]
    /\ UNCHANGED <<clock, registered>>

\* scheduled_ingestion() is called: db = SessionLocal().
FireNewsIngestion ==
    /\ UNCHANGED notSch
    /\ Fire("news_ingestion", FALSE,
            [IdleRun EXCEPT !.pc = "rss", !.session = "open"])

\* scheduled_stock_quotes() is called: it returns at once outside market
\* hours, else db = SessionLocal().
FireStockQuotes ==
    /\ UNCHANGED notSch
    /\ Fire("stock_quotes", ~is_market_hours(clock),
            [IdleRun EXCEPT !.pc = "update", !.session = "open",
                            !.invoked_at = Some(clock)])

\* A run of `job` in slot k is at `step` and executes it.
Step(job, k, step) ==
    /\ runs[job][k].pc = step
    /\ \E out \in StepOutcomes :
          runs' = [runs EXCEPT ![job][k] = Advance(@, step, out)]
    /\ UNCHANGED <<clock, registered, sch_event>>

\* [1/5] rss_results = ingest_all_feeds(db)
StepRss(k) == UNCHANGED notSch /\ Step("news_ingestion", k, "rss")
\* [2/5] web_results = orchestrator.ingest_all_news(db, limit_per_source=10)
StepWeb(k) == UNCHANGED notSch /\ Step("news_ingestion", k, "web")
\* [3/5] process_result = process_unprocessed_articles(db, limit=10)
StepPipeline(k) == UNCHANGED notSch /\ Step("news_ingestion", k, "pipeline")
\* [4/5] bt_result = run_backtest_for_unvalidated(db)
StepBacktest(k) == UNCHANGED notSch /\ Step("news_ingestion", k, "backtest")
\* [5/5] sentiment_count = orchestrator.ingest_sentiment(db, limit=25)
StepSentiment(k) == UNCHANGED notSch /\ Step("news_ingestion", k, "sentiment")
\* count = orchestrator.update_stock_quotes(db)
StepUpdate(k) == UNCHANGED notSch /\ Step("stock_quotes", k, "update")

\* finally: db.close(); the job function is left, its locals are gone and
\* the thread is free.
Finally(job, k) ==
    /\ UNCHANGED notSch
    /\ runs[job][k].pc = "finally"
    /\ runs' = [runs EXCEPT ![job][k] =
                    [IdleRun EXCEPT !.session = "closed",
                                    !.escaped = runs[job][k].escaped,
                                    !.failed = runs[job][k].failed]]
    /\ UNCHANGED <<clock, registered, sch_event>>

SchedNext ==
    \/ ClockAdvances
    \/ FireNewsIngestion
    \/ FireStockQuotes
    \/ \E k \in Slots : StepRss(k)
    \/ \E k \in Slots : StepWeb(k)
    \/ \E k \in Slots : StepPipeline(k)
    \/ \E k \in Slots : StepBacktest(k)
    \/ \E k \in Slots : StepSentiment(k)
    \/ \E k \in Slots : StepUpdate(k)
    \/ \E j \in JobIds, k \in Slots : Finally(j, k)

-----------------------------------------------------------------------------
(* Ingestion runs side by side: the scheduled cycle and POST /api/news/ingest *)

\* The runs that may go on at once, each with its own session.
Ingesters == {"scheduled", "ondemand"}

\* POST /api/news/ingest calls ingest_all_feeds; the scheduled cycle calls
\* ingest_all_feeds and ingest_all_news.
KindsOf(r) == IF r = "ondemand" THEN {"feed"} ELSE {"feed", "web"}

\* A flush (before a query with autoflush, or in a commit) inserts the pending
\* rows; it fails on a row whose hash another session has committed.
FlushFails(rows, pending) == Hashes(pending) \cap Hashes(rows) # {}

\* `except Exception` around the loop and the commit of ingest_feed, and
\* around db.add/db.commit of each article in ingest_all_news.
Catches(kind) == kind \in {"feed", "web"}

\* Where a run goes when a flush or commit fails at position `pc`.
AfterFailure(kind, pc) ==
    IF ~Catches(kind) THEN "raised"
    ELSE IF kind = "feed" THEN "returned" ELSE pc

RaceInit ==
    /\ rc_pc = [r \in Ingesters |-> "idle"]
    /\ rc_kind = [r \in Ingesters |-> "feed"]
    /\ rc_entries = [r \in Ingesters |-> <<>>]
    /\ rc_new = [r \in Ingesters |-> <<>>]
    /\ rc_todo = [r \in Ingesters |-> <<>>]

notRc == <<fetchVars, nearVars, btVars, plVars, schVars, adVars, stVars, dcVars, lmVars, thVars, cyVars>>
ingRest == <<upstream, post_rows, ing_pc, ing_run, ing_last, ing_failed>>

\* ingest_feed(source_name, feed_url, db) is called for one of the feeds:
\* feed = feedparser.parse(feed_url).
StartIngestFeed(r) ==
    /\ UNCHANGED <<notRc, ingRest, autoflush, art_rows>>
    /\ rc_pc[r] \in {"idle", "returned"}
    /\ "feed" \in KindsOf(r)
    /\ \E entries \in LinkLists :
          rc_entries' = [rc_entries EXCEPT ![r] = entries]
    /\ rc_pc' = [rc_pc EXCEPT ![r] = "loop"]
    /\ rc_kind' = [rc_kind EXCEPT ![r] = "feed"]
    /\ rc_new' = [rc_new EXCEPT ![r] = <<>>]
    /\ rc_todo' = [rc_todo EXCEPT ![r] = <<>>]

\* One iteration of `for entry in feed.entries`.  With autoflush the query
\* flushes new_articles first; an IntegrityError of that flush goes to the
\* except of ingest_feed: db.rollback(), and new_articles is returned.
FeedEntry(r) ==
    /\ UNCHANGED <<notRc, ingRest, autoflush, art_rows>>
    /\ rc_pc[r] = "loop" /\ rc_kind[r] = "feed" /\ rc_entries[r] # <<>>
    /\ IF autoflush /\ FlushFails(art_rows, rc_new[r])
       THEN /\ rc_pc' = [rc_pc EXCEPT ![r] = AfterFailure("feed", "loop")]
            /\ UNCHANGED <<rc_entries, rc_new>>
       ELSE LET url == Head(rc_entries[r]) IN
            /\ rc_new' = [rc_new EXCEPT ![r] =
                   IF Existing(hash_url(url), art_rows, @) THEN @
                   ELSE Append(@, Row(url, r))]
            /\ rc_entries' = [rc_entries EXCEPT ![r] = Tail(@)]
            /\ rc_pc' = rc_pc
    /\ UNCHANGED <<rc_kind, rc_todo>>

\* db.commit() after the loop, db.rollback() in the except; return
\* new_articles.
CommitFeed(r) ==
    /\ UNCHANGED <<notRc, ingRest, autoflush>>
    /\ rc_pc[r] = "loop" /\ rc_kind[r] = "feed" /\ rc_entries[r] = <<>>
    /\ art_rows' = Commit(art_rows, rc_new[r])
    /\ rc_pc' = [rc_pc EXCEPT ![r] =
           IF CommitOk(art_rows, rc_new[r]) THEN "returned"
           ELSE AfterFailure("feed", "commit")]
    /\ UNCHANGED <<rc_kind, rc_entries, rc_new, rc_todo>>

\* articles = scraper.scrape(limit=limit_per_source, db=db) in
\* ingest_all_news: the scraper reads the store and writes nothing.
StartScrape(r) ==
    /\ UNCHANGED <<notRc, ingRest, autoflush, art_rows>>
    /\ rc_pc[r] \in {"idle", "returned"}
    /\ "web" \in KindsOf(r)
    /\ \E links \in LinkLists, limit \in 1..MaxLimit, ok \in SUBSET Urls :
          LET scraped == scrape(r, links, limit, art_rows, ok).articles IN
          /\ rc_new' = [rc_new EXCEPT ![r] = scraped]
          /\ rc_todo' = [rc_todo EXCEPT ![r] = scraped]
    /\ rc_pc' = [rc_pc EXCEPT ![r] = "save"]
    /\ rc_kind' = [rc_kind EXCEPT ![r] = "web"]
    /\ rc_entries' = [rc_entries EXCEPT ![r] = <<>>]

\* for article in articles: db.add(article); db.commit(), with db.rollback()
\* on an exception; after the last one results[source] = len(articles).
SaveArticle(r) ==
    /\ UNCHANGED <<notRc, ingRest, autoflush>>
    /\ rc_pc[r] = "save"
    /\ IF rc_todo[r] = <<>>
       THEN /\ rc_pc' = [rc_pc EXCEPT ![r] = "returned"]
            /\ UNCHANGED <<art_rows, rc_todo>>
       ELSE /\ art_rows' = Commit(art_rows, <<Head(rc_todo[r])>>)
            /\ rc_todo' = [rc_todo EXCEPT ![r] = Tail(@)]
            /\ rc_pc' = [rc_pc EXCEPT ![r] =
                   IF CommitOk(art_rows, <<Head(rc_todo[r])>>) THEN "save"
                   ELSE AfterFailure("web", "save")]
    /\ UNCHANGED <<rc_kind, rc_entries, rc_new>>

RaceNext ==
    \/ \E r \in Ingesters : StartIngestFeed(r)
    \/ \E r \in Ingesters : FeedEntry(r)
    \/ \E r \in Ingesters : CommitFeed(r)
    \/ \E r \in Ingesters : StartScrape(r)
    \/ \E r \in Ingesters : SaveArticle(r)

-----------------------------------------------------------------------------
(* One category run: ingest_all_feeds and ingest_all_news over their sources *)

\* settings.rss_feeds and IngestionOrchestrator.news_scrapers (source_name),
\* in iteration order; the first two of each.
rss_feeds == <<"Financial Post", "Globe and Mail Business">>
news_scrapers == <<"Globe and Mail Business", "BNN Bloomberg">>

Range(f) == {f[i] : i \in DOMAIN f}

\* Where the try block of ingest_feed may be left by an exception: after k
\* entries were handled (k = 0: feedparser.parse or the first query; k = the
\* number of entries: db.commit()).  None: nothing raises by itself.
Faults(entries) == {None} \cup {Some(k) : k \in 0..Len(entries)}

\* ingest_feed with an exception at `fault`: the except clause rolls back and
\* new_articles, as far as it was filled, is returned.
IngestFeedRun(source, entries, rows, fault) ==
    IF IsNone(fault)
    THEN LET r == ingest_feed(source, entries, rows)
         IN  [new_articles |-> r.new_articles, rows |-> r.rows,
              failed |-> ~r.committed]
    ELSE [new_articles |->
              FeedEntries(source, SubSeq(entries, 1, Val(fault)), rows, <<>>),
          rows |-> rows, failed |-> TRUE]

\* results[source_name] = len(articles) in ingest_all_feeds.
FeedCount(run) == Len(run.new_articles)

\* results[scraper.source_name] = len(articles), or 0 in the except clause
\* of ingest_all_news.
ScraperCount(raised, scraped) == IF raised THEN 0 ELSE Len(scraped)

AdaptersInit ==
    /\ ad_pc = "idle"
    /\ ad_left = <<>>
    /\ ad_results = <<>>
    /\ ad_invoked = <<>>
    /\ ad_failed = {}

notAd == <<fetchVars, nearVars, btVars, plVars, schVars, rcVars, stVars, dcVars, lmVars, thVars, cyVars>>

\* ingest_all_feeds(db): results = {}
AllFeedsStart ==
    /\ UNCHANGED <<notAd, ingVars>>
    /\ ad_pc \in {"idle", "feeds_returned", "news_returned"}
    /\ ad_pc' = "feeds"
    /\ ad_left' = rss_feeds
    /\ ad_results' = <<>> /\ ad_invoked' = <<>> /\ ad_failed' = {}

\* for source_name, feed_url in settings.rss_feeds.items()
FeedStep ==
    /\ UNCHANGED <<notAd, ingRest, autoflush>>
    /\ ad_pc = "feeds" /\ ad_left # <<>>
    /\ \E entries \in LinkLists :
       \E fault \in Faults(entries) :
          LET name == Head(ad_left)
              run  == IngestFeedRun(name, entries, art_rows, fault)
          IN  /\ art_rows' = run.rows
              /\ ad_results' = (name :> FeedCount(run)) @@ ad_results
              /\ ad_failed' = IF run.failed THEN ad_failed \cup {name}
                              ELSE ad_failed
              /\ ad_invoked' = Append(ad_invoked, name)
    /\ ad_left' = Tail(ad_left)
    /\ ad_pc' = ad_pc

\* return results
AllFeedsReturn ==
    /\ UNCHANGED <<notAd, ingVars>>
    /\ ad_pc = "feeds" /\ ad_left = <<>>
    /\ ad_pc' = "feeds_returned"
    /\ UNCHANGED <<ad_left, ad_results, ad_invoked, ad_failed>>

\* ingest_all_news(db, limit_per_source): results = {}
AllNewsStart ==
    /\ UNCHANGED <<notAd, ingVars>>
    /\ ad_pc \in {"idle", "feeds_returned", "news_returned"}
    /\ ad_pc' = "news"
    /\ ad_left' = news_scrapers
    /\ ad_results' = <<>> /\ ad_invoked' = <<>> /\ ad_failed' = {}

\* for scraper in self.news_scrapers: scrape, save article by article, count;
\* an exception of scrape is caught, counted as 0 and rolled back.
ScraperStep ==
    /\ UNCHANGED <<notAd, ingRest, autoflush>>
    /\ ad_pc = "news" /\ ad_left # <<>>
    /\ \E links \in LinkLists, limit \in 1..MaxLimit, ok \in SUBSET Urls,
          raised \in BOOLEAN :
          LET name    == Head(ad_left)
              scraped == IF raised THEN <<>>
                         ELSE scrape(name, links, limit, art_rows, ok).articles
          IN  /\ art_rows' = SaveArticles(scraped, art_rows)
              /\ ad_results' = (name :> ScraperCount(raised, scraped)) @@ ad_results
              /\ ad_failed' = IF raised THEN ad_failed \cup {name}
                              ELSE ad_failed
              /\ ad_invoked' = Append(ad_invoked, name)
    /\ ad_left' = Tail(ad_left)
    /\ ad_pc' = ad_pc

\* return results
AllNewsReturn ==
    /\ UNCHANGED <<notAd, ingVars>>
    /\ ad_pc = "news" /\ ad_left = <<>>
    /\ ad_pc' = "news_returned"
    /\ UNCHANGED <<ad_left, ad_results, ad_invoked, ad_failed>>

AdaptersNext ==
    \/ AllFeedsStart \/ FeedStep \/ AllFeedsReturn
    \/ AllNewsStart \/ ScraperStep \/ AllNewsReturn

-----------------------------------------------------------------------------
(* The analysis stages and their defaults: entity, sentiment, signal, theme *)

MaxItems == 2

\* What an element of a decoded array can be: an object, an object whose
\* "ticker" is null, or a value that is no object (a string).
Elems == {"obj", "null_ticker", "str"}

\* What call_claude_json gives a stage: it raises (the request failed or the
\* text could not be decoded), or returns a scalar, an object or an array.
ModelOutputs ==
    {[kind |-> "raise", items |-> <<>>], [kind |-> "scalar", items |-> <<>>],
     [kind |-> "dict", items |-> <<>>]}
    \cup {[kind |-> "list", items |-> l] : l \in SeqsUpTo(Elems, MaxItems)}

\* e.get(...) / sig.get(...) / a.get(...) on every element: an AttributeError
\* on an element that is no object.
GetRaises(items) == \E i \in 1..Len(items) : items[i] = "str"

\* extract_entities: the decoded array as it is, [] otherwise.
extract_entities(out) ==
    [raised |-> FALSE,
     value  |-> IF out.kind = "list" THEN out.items ELSE <<>>]

\* analyze_sentiment: entities_str is built before the try; then the decoded
\* object as it is, the neutral default otherwise.
analyze_sentiment(entities, out) ==
    IF GetRaises(entities)
    THEN [raised |-> TRUE, value |-> "none"]
    ELSE [raised |-> FALSE,
          value  |-> IF out.kind = "dict" THEN "model" ELSE "neutral_0.5"]

\* generate_signals: entities_str is built before the try; then the decoded
\* array, a decoded object wrapped in a list, [] otherwise.
generate_signals(entities, out) ==
    IF GetRaises(entities)
    THEN [raised |-> TRUE, value |-> <<>>]
    ELSE [raised |-> FALSE,
          value  |-> IF out.kind = "list" THEN out.items
                     ELSE IF out.kind = "dict" THEN <<"obj">>
                     ELSE <<>>]

\* detect_themes(articles): [] for fewer than two articles; the router
\* passes dicts, so articles_text is built; then the decoded array or [].
\* `called`: call_claude_json was called.
DetectThemesMutant(n_articles, out) ==
    [raised |-> FALSE, called |-> TRUE,
     value  |-> IF out.kind = "list" THEN out.items ELSE <<>>]

detect_themes(n_articles, out) ==
    IF n_articles < 2 THEN [raised |-> FALSE, called |-> FALSE, value |-> <<>>]
    ELSE [raised |-> FALSE, called |-> TRUE,
          value  |-> IF out.kind = "list" THEN out.items ELSE <<>>]

\* The loop of process_article over raw_signals and its db.commit(): sig.get
\* raises on an element that is no object, and the commit fails on a Signal
\* whose stock_ticker is null.
StoreRaises(raw_signals) ==
    \/ GetRaises(raw_signals)
    \/ \E i \in 1..Len(raw_signals) : raw_signals[i] = "null_ticker"

StagesInit ==
    /\ st_pc = "start"
    /\ st_out = [kind |-> "scalar", items |-> <<>>]
    /\ st_entities = <<>>
    /\ st_sentiment = "none"
    /\ st_signals = <<>>
    /\ st_themes = <<>>

notSt == <<fetchVars, nearVars, btVars, plVars, ingVars, schVars, rcVars,
           adVars, dcVars, lmVars, thVars, cyVars>>

\* entities = extract_entities(...); if not entities: processed, return []
ExtractEntities ==
    /\ UNCHANGED notSt
    /\ st_pc = "start"
    /\ \E out \in ModelOutputs :
          LET r == extract_entities(out) IN
          /\ st_out' = out
          /\ st_entities' = r.value
          /\ st_pc' = IF r.raised THEN "raised"
                      ELSE IF r.value = <<>> THEN "returned" ELSE "sentiment"
    /\ UNCHANGED <<st_sentiment, st_signals, st_themes>>

\* sentiment = analyze_sentiment(article.title, content, entities)
AnalyzeSentiment ==
    /\ UNCHANGED notSt
    /\ st_pc = "sentiment"
    /\ \E out \in ModelOutputs :
          LET r == analyze_sentiment(st_entities, out) IN
          /\ st_out' = out
          /\ st_sentiment' = r.value
          /\ st_pc' = IF r.raised THEN "raised" ELSE "signal"
    /\ UNCHANGED <<st_entities, st_signals, st_themes>>

\* raw_signals = generate_signals(article.title, content, entities, sentiment)
GenerateSignals ==
    /\ UNCHANGED notSt
    /\ st_pc = "signal"
    /\ \E out \in ModelOutputs :
          LET r == generate_signals(st_entities, out) IN
          /\ st_out' = out
          /\ st_signals' = r.value
          /\ st_pc' = IF r.raised THEN "raised" ELSE "store"
    /\ UNCHANGED <<st_entities, st_sentiment, st_themes>>

\* for sig in raw_signals: ... db.add(signal); then processed, db.commit()
StoreSignals ==
    /\ UNCHANGED notSt
    /\ st_pc = "store"
    /\ st_pc' = IF StoreRaises(st_signals) THEN "raised" ELSE "returned"
    /\ UNCHANGED <<st_out, st_entities, st_sentiment, st_signals, st_themes>>

\* raw_themes = detect_themes(article_dicts) in the themes router
DetectThemes ==
    /\ UNCHANGED notSt
    /\ st_pc = "start"
    /\ \E n_articles \in 0..MaxItems, out \in ModelOutputs :
          LET r == detect_themes(n_articles, out) IN
          /\ st_out' = out
          /\ st_themes' = r.value
          /\ st_pc' = IF r.raised THEN "raised" ELSE "start"
    /\ UNCHANGED <<st_entities, st_sentiment, st_signals>>

\* process_article is called for the next article.
NextArticle ==
    /\ UNCHANGED notSt
    /\ st_pc \in {"returned", "raised"}
    /\ st_pc' = "start"
    /\ st_entities' = <<>> /\ st_sentiment' = "none" /\ st_signals' = <<>>
    /\ UNCHANGED <<st_out, st_themes>>

StagesNext ==
    \/ ExtractEntities \/ AnalyzeSentiment \/ GenerateSignals
    \/ StoreSignals \/ DetectThemes \/ NextArticle

-----------------------------------------------------------------------------
(* Decoding a model response: call_claude_json *)

MaxTextLen == 4

\* A response as a sequence of tokens separated by white space: brackets,
\* braces, a JSON number, a word of prose, and the code fence (three
\* backticks, with or without the tag json).
Tokens == {"[", "]", "{", "}", "1", "word", "fence"}

Texts == SeqsUpTo(Tokens, MaxTextLen)

\* json.loads(text) succeeds: the text is one JSON value.  With these tokens
\* a value is a number, an empty object, or an array of at most one value.
RECURSIVE IsJson(_)
IsJson(text) ==
    \/ text = <<"1">>
    \/ text = <<"{", "}">>
    \/ text = <<"[", "]">>
    \/ /\ Len(text) >= 3
       /\ text[1] = "[" /\ text[Len(text)] = "]"
       /\ IsJson(SubSeq(text, 2, Len(text) - 1))

Positions(text, tok) == {i \in 1..Len(text) : text[i] = tok}

Max(S) == CHOOSE x \in S : \A y \in S : y <= x

\* re.search(fence (?:json)?\s*([\s\S]*?) fence, raw): the text between the
\* first fence and the next one; the text as it is when there is no such pair.
StripFence(text) ==
    LET f == Positions(text, "fence") IN
    IF Cardinality(f) < 2 THEN text
    ELSE LET a == Min(f)
             b == Min(f \ {a})
         IN  SubSeq(text, a + 1, b - 1)

\* re.search(r"\[[\s\S]*\]", raw) and re.search(r"\{[\s\S]*\}", raw): from
\* the first opening token to the last closing token after it.  None when
\* the pattern does not match.
GreedyMatch(text, open, close) ==
    LET o == Positions(text, open)
        c == Positions(text, close)
    IN  IF o = {} \/ c = {} \/ Max(c) < Min(o) THEN None
        ELSE Some(SubSeq(text, Min(o), Max(c)))

DecodeInit ==
    /\ dc_text \in Texts
    /\ dc_raw = dc_text
    /\ dc_pc = "fence"
    /\ dc_result = None

notDc == <<fetchVars, nearVars, btVars, plVars, ingVars, schVars, rcVars,
           adVars, stVars, lmVars, thVars, cyVars>>

\* json_match = re.search(fence); if json_match: raw = group(1).strip()
DecodeFence ==
    /\ UNCHANGED notDc
    /\ dc_pc = "fence"
    /\ dc_raw' = StripFence(dc_text)
    /\ dc_pc' = "direct"
    /\ UNCHANGED <<dc_text, dc_result>>

\* try: return json.loads(raw)
DecodeDirect ==
    /\ UNCHANGED notDc
    /\ dc_pc = "direct"
    /\ IF IsJson(dc_raw)
       THEN dc_result' = Some(dc_raw) /\ dc_pc' = "returned"
       ELSE dc_result' = dc_result /\ dc_pc' = "array"
    /\ UNCHANGED <<dc_text, dc_raw>>

\* One turn of `for pattern in [...]`: match, json.loads(match.group()),
\* `continue` on JSONDecodeError.
DecodePattern(pc, open, close, next) ==
    /\ UNCHANGED notDc
    /\ dc_pc = pc
    /\ LET m == GreedyMatch(dc_raw, open, close) IN
       IF ~IsNone(m) /\ IsJson(Val(m))
       THEN dc_result' = m /\ dc_pc' = "returned"
       ELSE dc_result' = dc_result /\ dc_pc' = next
    /\ UNCHANGED <<dc_text, dc_raw>>

DecodeArray == TRUE /\ DecodePattern("array", "[", "]", "object")

\* after the object pattern: raise ValueError
DecodeObject == TRUE /\ DecodePattern("object", "{", "}", "raised")

DecodeNext == DecodeFence \/ DecodeDirect \/ DecodeArray \/ DecodeObject

-----------------------------------------------------------------------------
(* The caller's limit: scrape(limit) and scrape_all(limit) *)

\* RedditScraper.DEFAULT_SUBREDDITS
DEFAULT_SUBREDDITS == <<"CanadianInvestor", "CanadaFinance">>

\* The permalinks the subreddits may list (tweets have their links in Urls).
Permalinks == {"u1", "u2", "u3"}

\* What a service answers to a request for at most n items out of `links`:
\* never more than n (limit=n in the listing request,
\* max_results=min(limit, 100)).
ServerListings(links, n) == {l \in SeqsUpTo(links, MaxLimit) : Len(l) <= n}

\* RedditScraper.scrape_all: scrape_with_praw for every subreddit (without
\* credentials: scrape_subreddit_json) with the caller's limit each, the
\* posts of all of them in one list.
RECURSIVE RedditScrapeAll(_, _, _, _)
RedditScrapeAll(k, listings, rows, all_posts) ==
    IF k > Len(DEFAULT_SUBREDDITS)
    THEN [posts |-> all_posts, raised |-> FALSE]
    ELSE LET r == scrape_subreddit_json(DEFAULT_SUBREDDITS[k], listings[k], rows)
         IN  IF r.raised THEN [posts |-> <<>>, raised |-> TRUE]
             ELSE RedditScrapeAll(k + 1, listings, r.rows, all_posts \o r.posts)

\* TwitterScraper.search_recent: the new tweets of one search, committed in
\* a try that rolls back on an exception; the posts are returned either way.
search_recent(listing, rows) ==
    LET posts == ListingChildren("Twitter", listing, rows, <<>>)
    IN  [posts |-> posts, rows |-> Commit(rows, posts)]

\* for p in posts: if p.url_hash not in seen_hashes: all_posts.append(p)
RECURSIVE AppendUnseen(_, _)
AppendUnseen(all_posts, posts) ==
    IF posts = <<>> THEN all_posts
    ELSE AppendUnseen(
           IF Head(posts).url_hash \in Hashes(all_posts) THEN all_posts
           ELSE Append(all_posts, Head(posts)),
           Tail(posts))

\* TwitterScraper.scrape_all: [] without a bearer token; else the searches
\* for keywords[:3] with the caller's limit each, then scrape_accounts with
\* its own limit of 10 (listings[Len(listings)]).
RECURSIVE TwitterSearches(_, _, _, _)
TwitterSearches(k, listings, rows, all_posts) ==
    IF k > Len(listings) THEN all_posts
    ELSE LET r == search_recent(listings[k], rows)
         IN  TwitterSearches(k + 1, listings, r.rows,
                             AppendUnseen(all_posts, r.posts))

TwitterScrapeAll(bearer_token, listings) ==
    IF ~bearer_token THEN <<>> ELSE TwitterSearches(1, listings, <<>>, <<>>)

\* The calls: an adapter, the caller's limit and the listings the services
\* give for that limit.
LimitInputs ==
    UNION {
      {[adapter |-> "news", limit |-> n, listings |-> <<l>>, ok |-> ok,
        token |-> FALSE] : l \in LinkLists, ok \in SUBSET Urls}
      \cup {[adapter |-> "reddit", limit |-> n, listings |-> <<l1, l2>>,
             ok |-> {}, token |-> FALSE] :
                l1 \in ServerListings(Permalinks, n),
                l2 \in ServerListings(Permalinks, n)}
      \cup {[adapter |-> "twitter", limit |-> n,
             listings |-> <<l1, l2, l3, l4>>, ok |-> {}, token |-> t] :
                t \in BOOLEAN, l1 \in ServerListings(Urls, n),
                l2 \in ServerListings(Urls, n), l3 \in ServerListings(Urls, n),
                l4 \in SeqsUpTo(Urls, 1)}
      : n \in 0..MaxLimit}

LimitInit ==
    /\ lm_pc = "input"
    /\ lm_in \in LimitInputs
    /\ lm_returned = <<>>

LimitIdle ==
    /\ lm_pc = "input"
    /\ lm_in = [adapter |-> "none", limit |-> 0, listings |-> <<>>, ok |-> {},
                token |-> FALSE]
    /\ lm_returned = <<>>

notLm == <<fetchVars, nearVars, btVars, plVars, ingVars, schVars, rcVars,
           adVars, stVars, dcVars, thVars, cyVars>>

\* scraper.scrape(limit=limit_per_source, db=db) of a news scraper
CallNewsScrape ==
    /\ UNCHANGED notLm
    /\ lm_pc = "input" /\ lm_in.adapter = "news"
    /\ lm_returned' =
          scrape("web", lm_in.listings[1], lm_in.limit, <<>>, lm_in.ok).articles
    /\ lm_pc' = "called"
    /\ UNCHANGED lm_in

\* self.sentiment_scraper.scrape_all(limit=limit, db=db)
CallRedditScrapeAll ==
    /\ UNCHANGED notLm
    /\ lm_pc = "input" /\ lm_in.adapter = "reddit"
    /\ LET r == RedditScrapeAll(1, lm_in.listings, <<>>, <<>>) IN
       /\ lm_returned' = r.posts
       /\ lm_pc' = IF r.raised THEN "raised" ELSE "called"
    /\ UNCHANGED lm_in

\* self.twitter_scraper.scrape_all(limit=limit, db=db)
CallTwitterScrapeAll ==
    /\ UNCHANGED notLm
    /\ lm_pc = "input" /\ lm_in.adapter = "twitter"
    /\ lm_returned' = TwitterScrapeAll(lm_in.token, lm_in.listings)
    /\ lm_pc' = "called"
    /\ UNCHANGED lm_in

LimitNext == CallNewsScrape \/ CallRedditScrapeAll \/ CallTwitterScrapeAll

-----------------------------------------------------------------------------
(* Theme detection on demand: POST /api/themes/detect *)

MaxIndices == 2

\* The model's answers whose array holds theme objects only.
ThemeOutputs ==
    {o \in ModelOutputs : \A i \in 1..Len(o.items) : o.items[i] = "obj"}

\* t.get("article_indices", []): any list of integers, in range or not.
IndexLists == SeqsUpTo(-1..MaxItems, MaxIndices)

\* for idx in article_indices: if 0 <= idx < len(articles):
\*     theme.articles.append(articles[idx])
\* The Articles the theme links, and whether one was appended twice.
LinkedArticles(idxs, n_articles) ==
    {idxs[k] : k \in {j \in 1..Len(idxs) : 0 <= idxs[j] /\ idxs[j] < n_articles}}

AppendedTwice(idxs, n_articles) ==
    \E j, k \in 1..Len(idxs) :
        j < k /\ idxs[j] = idxs[k] /\ 0 <= idxs[j] /\ idxs[j] < n_articles

ThemesIdle ==
    /\ th_pc = "idle" /\ th_entry = "none" /\ th_n = 0 /\ th_calls = 0
    /\ th_todo = <<>> /\ th_added = <<>> /\ th_created = 0 /\ th_themes = {}

notTh == <<fetchVars, nearVars, btVars, plVars, ingVars, schVars, rcVars,
           adVars, stVars, dcVars, lmVars, cyVars>>

\* detect_themes(articles) called on its own with a list of any length.
CallDetectThemes ==
    /\ UNCHANGED notTh
    /\ th_pc = "idle"
    /\ \E n_articles \in 0..MaxItems, out \in ThemeOutputs :
          LET r == detect_themes(n_articles, out) IN
          /\ th_n' = n_articles
          /\ th_calls' = IF r.called THEN 1 ELSE 0
          /\ th_created' = Len(r.value)
    /\ th_entry' = "detect_themes"
    /\ th_pc' = "returned"
    /\ UNCHANGED <<th_todo, th_added, th_themes>>

\* trigger_theme_detection up to the loop: the processed Articles of the
\* last days; themes_detected=0 for fewer than two; else detect_themes.
TriggerThemeDetection ==
    /\ UNCHANGED notTh
    /\ th_pc = "idle"
    /\ th_entry' = "trigger"
    /\ th_added' = <<>> /\ th_created' = 0
    /\ \E n_articles \in 0..MaxItems, out \in ThemeOutputs :
          /\ th_n' = n_articles
          /\ IF n_articles < 2
             THEN th_calls' = 0 /\ th_todo' = <<>> /\ th_pc' = "returned"
             ELSE LET r == detect_themes(n_articles, out) IN
                  /\ th_calls' = IF r.called THEN 1 ELSE 0
                  /\ th_todo' = r.value
                  /\ th_pc' = "loop"
    /\ UNCHANGED th_themes

\* One turn of `for t in raw_themes`: the Theme, its links, db.add(theme).
AddTheme ==
    /\ UNCHANGED notTh
    /\ th_pc = "loop" /\ th_todo # <<>>
    /\ \E idxs \in IndexLists :
          th_added' = Append(th_added,
              [articles |-> LinkedArticles(idxs, th_n),
               twice    |-> AppendedTwice(idxs, th_n)])
    /\ th_created' = th_created + 1
    /\ th_todo' = Tail(th_todo)
    /\ UNCHANGED <<th_pc, th_entry, th_n, th_calls, th_themes>>

\* db.commit() after the loop.  An Article appended twice to theme.articles
\* is either linked once or makes the commit fail on the key of
\* theme_articles: both outcomes are allowed.
CommitThemes ==
    /\ UNCHANGED notTh
    /\ th_pc = "loop" /\ th_todo = <<>>
    /\ \E fails \in BOOLEAN :
          /\ fails => \E i \in 1..Len(th_added) : th_added[i].twice
          /\ IF fails
             THEN th_pc' = "raised" /\ th_themes' = th_themes
             ELSE /\ th_pc' = "returned"
                  /\ th_themes' = th_themes \cup
                        {th_added[i].articles : i \in 1..Len(th_added)}
    /\ UNCHANGED <<th_entry, th_n, th_calls, th_todo, th_added, th_created>>

ThemesNext ==
    \/ CallDetectThemes \/ TriggerThemeDetection \/ AddTheme \/ CommitThemes

-----------------------------------------------------------------------------
(* The articles over repeated cycles of scheduled_ingestion *)

\* process_unprocessed_articles(db, limit=10) of the scheduled cycle, scaled
\* down with the number of articles.
ScheduledLimit == 1

CycleIdle == cy_pc = "idle" /\ cy_new = 0

notCy == <<fetchVars, nearVars, btVars, ingVars, schVars, rcVars, adVars,
           stVars, dcVars, lmVars, thVars>>

\* Steps 1a and 1b: the feeds and scrapers persist what is new, each Article
\* with processed = False; total_new = rss_new + web_new.
CycleIngest ==
    /\ UNCHANGED notCy
    /\ cy_pc = "idle"
    /\ \E n \in 0..(MaxArticles - Len(articles)) :
          /\ articles' = articles \o
                [i \in 1..n |-> [id |-> Len(articles) + i, processed |-> FALSE,
                                 entities |-> "unseen", calls |-> {}]]
          /\ cy_new' = n
    /\ cy_pc' = "ingested"
    /\ UNCHANGED <<pl_signals, pl_pc, pl_batch, pl_queue>>

\* if total_new > 0: process_unprocessed_articles(db, limit=10): the query.
CyclePipelineStart ==
    /\ UNCHANGED notCy
    /\ cy_pc = "ingested" /\ cy_new > 0
    /\ LET sel == SelectUnprocessed(ScheduledLimit) IN
       /\ pl_batch' = [pl_batch EXCEPT !["scheduled"] = sel]
       /\ pl_queue' = [pl_queue EXCEPT !["scheduled"] = sel]
    /\ pl_pc' = [pl_pc EXCEPT !["scheduled"] = "running"]
    /\ cy_pc' = "pipeline"
    /\ UNCHANGED <<articles, pl_signals, cy_new>>

\* else: "No new articles to process"; the cycle goes on to step 5.
CyclePipelineSkipped ==
    /\ UNCHANGED notCy
    /\ cy_pc = "ingested" /\ cy_new = 0
    /\ cy_pc' = "sentiment"
    /\ UNCHANGED <<articles, pl_signals, pl_pc, pl_batch, pl_queue, cy_new>>

\* One iteration of the loop of the cycle's pipeline run.
CycleProcessArticle ==
    /\ cy_pc = "pipeline" /\ UNCHANGED <<cy_pc, cy_new>>
    /\ ProcessNextArticle("scheduled")

\* The run returns its counts, or its exception reaches the handler of
\* scheduled_ingestion (which skips step 5).
CyclePipelineEnd ==
    /\ UNCHANGED notCy
    /\ cy_pc = "pipeline"
    /\ \/ pl_pc["scheduled"] = "raised" /\ UNCHANGED pl_pc
       \/ /\ pl_pc["scheduled"] = "running" /\ pl_queue["scheduled"] = <<>>
          /\ pl_pc' = [pl_pc EXCEPT !["scheduled"] = "returned"]
    /\ cy_pc' = IF pl_pc["scheduled"] = "raised" THEN "closing" ELSE "sentiment"
    /\ UNCHANGED <<articles, pl_signals, pl_batch, pl_queue, cy_new>>

\* Step 5, ingest_sentiment, touches no Article.
CycleSentiment ==
    /\ UNCHANGED notCy
    /\ cy_pc = "sentiment"
    /\ cy_pc' = "closing"
    /\ UNCHANGED <<articles, pl_signals, pl_pc, pl_batch, pl_queue, cy_new>>

\* finally: db.close(); the trigger fires again after the interval.
CycleEnd ==
    /\ UNCHANGED notCy
    /\ cy_pc = "closing"
    /\ cy_pc' = "idle" /\ cy_new' = 0
    /\ UNCHANGED <<articles, pl_signals, pl_pc, pl_batch, pl_queue>>

CycleNext ==
    \/ CycleIngest \/ CyclePipelineStart \/ CyclePipelineSkipped
    \/ CycleProcessArticle \/ CyclePipelineEnd \/ CycleSentiment \/ CycleEnd

\* ==== specifications ====

DecodeIdle ==
    /\ dc_text = <<>> /\ dc_raw = <<>> /\ dc_pc = "fence" /\ dc_result = None

BacktestIdle == BacktestInit /\ market = "rise"

IngestIdle ==
    IngestInit /\ autoflush /\ upstream = [s \in Sources |-> <<>>]

SchedIdle == SchedInit /\ clock = [weekday |-> 0, hour |-> 13]

InitFetch ==
    FetchInit /\ NearIdle /\ BacktestIdle /\ PipelineInit /\ IngestIdle /\ SchedIdle /\ RaceInit /\ AdaptersInit /\ StagesInit /\ DecodeIdle /\ CycleIdle /\ ThemesIdle /\ LimitIdle
SpecFetch == InitFetch /\ [][FetchNext]_vars

InitNearest ==
    /\ NearestInit /\ FetchInit /\ BacktestIdle /\ PipelineInit /\ IngestIdle
    /\ SchedIdle /\ RaceInit /\ AdaptersInit /\ StagesInit /\ DecodeIdle /\ CycleIdle /\ ThemesIdle /\ LimitIdle
SpecNearest == InitNearest /\ [][NearestNext]_vars

InitBacktest ==
    /\ BacktestInit /\ FetchInit /\ NearIdle /\ PipelineInit /\ IngestIdle
    /\ SchedIdle /\ RaceInit /\ AdaptersInit /\ StagesInit /\ DecodeIdle /\ CycleIdle /\ ThemesIdle /\ LimitIdle
SpecBacktest == InitBacktest /\ [][BacktestNext]_vars

\* Validation runs that may start while another one is going on.
BacktestRaceNext == BacktestNext \/ \E r \in Runners : StartBacktestRun(r)
SpecBacktestRace == InitBacktest /\ [][BacktestRaceNext]_vars

InitPipeline ==
    /\ PipelineInit /\ FetchInit /\ NearIdle /\ BacktestIdle /\ IngestIdle
    /\ SchedIdle /\ RaceInit /\ AdaptersInit /\ StagesInit /\ DecodeIdle /\ CycleIdle /\ ThemesIdle /\ LimitIdle
SpecPipeline == InitPipeline /\ [][PipelineNext]_vars

\* The scheduled cycle and POST /api/signals/process run in different
\* threads with their own sessions: a run may start while another is running.
PipelineRaceNext ==
    PipelineNext \/ \E r \in PipelineRunners : StartPipelineRun(r)
SpecPipelineRace == InitPipeline /\ [][PipelineRaceNext]_vars

InitIngest ==
    /\ IngestInit /\ FetchInit /\ NearIdle /\ BacktestIdle /\ PipelineInit
    /\ SchedIdle /\ RaceInit /\ AdaptersInit /\ StagesInit /\ DecodeIdle /\ CycleIdle /\ ThemesIdle /\ LimitIdle
SpecIngest == InitIngest /\ [][IngestNext]_vars

InitSched ==
    /\ SchedInit /\ FetchInit /\ NearIdle /\ BacktestIdle /\ PipelineInit
    /\ IngestIdle /\ RaceInit /\ AdaptersInit /\ StagesInit /\ DecodeIdle /\ CycleIdle /\ ThemesIdle /\ LimitIdle
SpecSched == InitSched /\ [][SchedNext]_vars

RaceStore ==
    /\ autoflush \in BOOLEAN
    /\ upstream = [s \in Sources |-> <<>>]
    /\ art_rows = <<>>
    /\ post_rows = <<>>
    /\ ing_pc = "feeds"
    /\ ing_run = 0
    /\ ing_last = [s \in Sources |-> None]
    /\ ing_failed = FALSE

InitRace ==
    /\ RaceInit /\ AdaptersInit /\ StagesInit /\ DecodeIdle /\ CycleIdle /\ ThemesIdle /\ LimitIdle /\ RaceStore /\ FetchInit /\ NearIdle /\ BacktestIdle
    /\ PipelineInit /\ SchedIdle
SpecRace == InitRace /\ [][RaceNext]_vars

InitAdapters ==
    /\ AdaptersInit /\ StagesInit /\ DecodeIdle /\ CycleIdle /\ ThemesIdle /\ LimitIdle /\ RaceInit /\ RaceStore /\ FetchInit /\ NearIdle
    /\ BacktestIdle /\ PipelineInit /\ SchedIdle
SpecAdapters == InitAdapters /\ [][AdaptersNext]_vars

InitStages ==
    /\ StagesInit /\ DecodeIdle /\ CycleIdle /\ ThemesIdle /\ LimitIdle /\ AdaptersInit /\ RaceInit /\ IngestIdle /\ FetchInit
    /\ NearIdle /\ BacktestIdle /\ PipelineInit /\ SchedIdle
SpecStages == InitStages /\ [][StagesNext]_vars

InitDecode ==
    /\ DecodeInit /\ CycleIdle /\ ThemesIdle /\ LimitIdle /\ StagesInit /\ AdaptersInit /\ RaceInit /\ IngestIdle
    /\ FetchInit /\ NearIdle /\ BacktestIdle /\ PipelineInit /\ SchedIdle
SpecDecode == InitDecode /\ [][DecodeNext]_vars

InitLimit ==
    /\ DecodeIdle /\ CycleIdle /\ ThemesIdle /\ StagesInit /\ AdaptersInit /\ RaceInit
    /\ IngestIdle /\ FetchInit /\ NearIdle /\ BacktestIdle /\ PipelineInit
    /\ SchedIdle /\ LimitInit
SpecLimit == InitLimit /\ [][LimitNext]_vars

InitThemes ==
    /\ DecodeIdle /\ CycleIdle /\ LimitIdle /\ StagesInit /\ AdaptersInit /\ RaceInit
    /\ IngestIdle /\ FetchInit /\ NearIdle /\ BacktestIdle /\ PipelineInit
    /\ SchedIdle /\ ThemesIdle
SpecThemes == InitThemes /\ [][ThemesNext]_vars

\* The interval trigger fires again after every cycle and a cycle that has
\* started goes on to its end.
InitCycle ==
    /\ DecodeIdle /\ CycleIdle /\ ThemesIdle /\ LimitIdle /\ StagesInit
    /\ AdaptersInit /\ RaceInit /\ IngestIdle /\ FetchInit /\ NearIdle
    /\ BacktestIdle /\ PipelineInit /\ SchedIdle
SpecCycle == InitCycle /\ [][CycleNext]_vars /\ WF_vars(CycleNext)

-----------------------------------------------------------------------------
(* Claims about the fetch client                                           *)

Last(s) == s[Len(s)]

IsSuccess(e) == e.kind = "status" /\ e.code # 429 /\ ~RaisesForStatus(e.code)

IsTransient(e) ==
    \/ e.kind \in {"timeout", "connection"}
    \/ e.kind = "status" /\ e.code >= 500

\* C7: a 429 response does not count against the retry budget: the number of
\* attempts still available is the same after the 429 was slept on as before.
C7_RateLimitKeepsBudget ==
    [][ ( /\ rq_pc = "loop" /\ rq_pc' = "loop"
          /\ Len(history') = Len(history) + 1
          /\ Last(history').code = 429 )
        => (max_retries - attempt' = max_retries - attempt) ]_vars

\* The run so far saw only timeouts, 5xx responses and connection errors,
\* possibly ended by a success.
TransientRun ==
    \A i \in 1..Len(history) :
        \/ IsTransient(history[i])
        \/ i = Len(history) /\ IsSuccess(history[i])

\* C8: for any sequence of timeouts, 5xx responses and connection errors the
\* call sends at most max_retries requests, sleeps 2^attempt after every failed
\* attempt but the last, returns the response on the first success and the
\* failure value once max_retries attempts have failed.
C8_BoundedBackoff ==
    TransientRun =>
        /\ Len(history) <= max_retries
        /\ rq_pc # "raised"
        /\ \A i \in 1..Len(history) :
              IF IsSuccess(history[i])
              THEN /\ history[i].slept = None
                   /\ rq_pc = "returned" /\ rq_value = "response"
              ELSE history[i].slept =
                       (IF i < max_retries THEN Some(Pow2(i - 1)) ELSE None)
        /\ (rq_pc = "returned" /\ rq_value = "failure") =>
              /\ Len(history) = max_retries
              /\ \A i \in 1..Len(history) : IsTransient(history[i])
        /\ (rq_pc = "loop" /\ Len(history) = max_retries) => ENABLED RetriesExhausted

C8_Witness ==
    /\ rq_pc = "returned" /\ rq_value = "failure"
    /\ Len(history) = max_retries
    /\ history[1].kind = "timeout" /\ history[1].slept = Some(1)
    /\ history[2].kind = "status" /\ history[2].code = 503 /\ history[2].slept = Some(2)
    /\ history[3].kind = "connection" /\ history[3].slept = None

\* C9: a 403 or 404 response ends the call at once with the failure value: no
\* sleep follows it and no further request is sent, on whichever attempt.
C9_PermanentNoRetry ==
    \A i \in 1..Len(history) :
        (history[i].kind = "status" /\ history[i].code \in {403, 404}) =>
            /\ i = Len(history)
            /\ history[i].slept = None
            /\ rq_pc = "returned" /\ rq_value = "failure"

C9_Witness ==
    /\ Len(history) = max_retries
    /\ history[1].kind = "timeout"
    /\ history[2].kind = "status" /\ history[2].code = 500
    /\ history[3].kind = "status" /\ history[3].code = 403
    /\ rq_pc = "returned" /\ rq_value = "failure"

\* C10: _make_request never raises past its caller, whatever the outcome of
\* the underlying request (any status, any Retry-After value).
C10_NeverRaises == rq_pc # "raised"

-----------------------------------------------------------------------------
(* Claims about the back-test engine                                       *)

ResultsOf(id) == {i \in 1..Len(bt_results) : bt_results[i].signal_id = id}

\* C1: after any number of sequential runs every Signal has at most one
\* BacktestResult, and a run only has Signals without a result left to
\* process: a Signal that has a result is never tested again.
C1_AtMostOneResult ==
    /\ \A id \in 1..Len(signals) : Cardinality(ResultsOf(id)) <= 1
    /\ \A r \in Runners : \A k \in 1..Len(bt_queue[r]) :
          bt_queue[r][k] \notin TestedSignalIds

\* A run in progress on day 30 or later that found nothing to test, while
\* the only Signal has the result an earlier run gave it (its 30-day horizon
\* was unresolved then and would resolve now).
C1_Witness ==
    /\ Len(signals) = 1 /\ Len(bt_results) = 1
    /\ bt_results[1].signal_id = 1
    /\ IsNone(bt_results[1].price[30])
    /\ today >= 30
    /\ \E r \in Runners : bt_pc[r] = "running" /\ bt_queue[r] = <<>>

\* C2: in every persisted BacktestResult and for every horizon, the accuracy
\* flag equals ((actual change > 0) = (direction_predicted = "up")) computed
\* on the stored fields, and is null exactly when the stored change is null.
C2_AccuracyFromStoredFields ==
    \A i \in 1..Len(bt_results) : \A h \in Horizons :
        LET res == bt_results[i] IN
        /\ IsNone(res.accurate[h]) <=> IsNone(res.actual_change[h])
        /\ ~IsNone(res.actual_change[h]) =>
              Val(res.accurate[h]) =
                  ((Val(res.actual_change[h]) > 0) = (res.direction_predicted = "up"))

\* C21: in every persisted result a horizon whose look-up found no day has
\* a null price, a null change and a null accuracy flag; every horizon whose
\* look-up found a day has the price of that day and the change and the flag
\* computed from it, whatever the other horizons gave.
C21_UnresolvedHorizonIsNull ==
    \A i \in 1..Len(bt_results) : \A h \in Horizons :
        LET res == bt_results[i]
            p0  == MarketPrice(market, Val(res.date_at_signal))
        IN  IF IsNone(res.date[h])
            THEN /\ IsNone(res.price[h]) /\ IsNone(res.actual_change[h])
                 /\ IsNone(res.accurate[h])
            ELSE LET ph == MarketPrice(market, Val(res.date[h])) IN
                 /\ IsTradingDay(Val(res.date[h])) /\ Val(res.date[h]) <= today
                 /\ res.price[h] = Some(RoundPrice(ph))
                 /\ res.actual_change[h] = Some(RoundChange(ph, p0))
                 /\ res.accurate[h] =
                       Some((ph > p0) = (Lower(res.direction_predicted) = "up"))

\* C21: a persisted result whose 7-day and 30-day horizons are null while
\* its 1-day horizon has a price, a change and a flag.
C21_Witness ==
    \E i \in 1..Len(bt_results) :
        /\ IsNone(bt_results[i].price[7]) /\ IsNone(bt_results[i].accurate[7])
        /\ IsNone(bt_results[i].price[30])
        /\ ~IsNone(bt_results[i].price[1]) /\ ~IsNone(bt_results[i].accurate[1])

\* C25: whatever the interleaving of two validation runs, no Signal has more
\* than one BacktestResult.
C25_OneResultUnderInterleaving ==
    \A id \in 1..Len(signals) : Cardinality(ResultsOf(id)) <= 1

\* The series a validation run on this day gets for the Signal of a result.
SeriesNow(res) ==
    get_stock_prices(market, today, res.signal_date - 5, res.signal_date + 35,
                     FALSE)

\* C28: when a validation run has worked through its queue, a horizon for
\* which the series now has a price is not null in any stored result.
C28_NullUntilResolvable ==
    (\E r \in Runners : bt_pc[r] = "running" /\ bt_queue[r] = <<>>) =>
       \A i \in 1..Len(bt_results) : \A h \in Horizons :
          LET res == bt_results[i] IN
          ~IsNone(find_nearest_price(SeriesNow(res), res.signal_date + h,
                                     DefaultOffset))
             => ~IsNone(res.price[h])

\* C29: in every stored result a horizon price that is not null comes from
\* a series day after the day price_at_signal comes from.
C29_HorizonAfterSignalDay ==
    \A i \in 1..Len(bt_results) : \A h \in Horizons :
        ~IsNone(bt_results[i].date[h]) =>
            Val(bt_results[i].date[h]) > Val(bt_results[i].date_at_signal)

\* C3: find_nearest_price(prices, target, N) never returns the price of a
\* day outside [target - N, target + N], and returns null when the series
\* has no day in that window.
C3_WithinWindow ==
    nr_pc = "called" =>
        /\ ~IsNone(nr_found) =>
              (nr_target - nr_offset <= Val(nr_found)
                 /\ Val(nr_found) <= nr_target + nr_offset)
        /\ (\A d \in DOMAIN nr_prices :
                d < nr_target - nr_offset \/ d > nr_target + nr_offset)
              => IsNone(nr_found)

-----------------------------------------------------------------------------
(* Claims about the analysis pipeline                                      *)

SignalsOf(a) == {i \in 1..Len(pl_signals) : pl_signals[i].article_id = a}

\* C4: an article for which entity linking returned zero entities is left
\* with processed = true and without any Signal row; sentiment analysis and
\* signal generation were not called for it.
C4_NoEntitiesNoSignal ==
    \A a \in 1..Len(articles) :
        articles[a].entities = "zero" =>
            /\ articles[a].processed
            /\ SignalsOf(a) = {}
            /\ articles[a].calls = {"entity"}

\* One article went through with zero entities while another one of the
\* same table yielded Signals.
C4_Witness ==
    /\ Len(articles) = 2
    /\ articles[1].entities = "zero" /\ articles[1].processed
    /\ articles[2].entities = "some" /\ SignalsOf(2) # {}

\* The Articles the current or last run of r has called process_article on.
ProcessedBy(r) ==
    {pl_batch[r][i] : i \in 1..(Len(pl_batch[r]) - Len(pl_queue[r]))}

\* C26: whatever the interleaving of two pipeline runs, no Article has gone
\* through process_article in both of them (runs that ended with an escaped
\* exception aside).
C26_OneRunPerArticle ==
    \A a \in 1..Len(articles) :
        Cardinality({r \in PipelineRunners :
                        pl_pc[r] \in {"running", "returned"}
                        /\ a \in ProcessedBy(r)}) <= 1

\* C5: when a run of process_unprocessed_articles is over, every article it
\* selected has processed = true, and the run came to its end: no failure in
\* processing or persisting one article kept it from the later ones.
C5_BatchAlwaysCompletes ==
    \A r \in PipelineRunners :
        pl_pc[r] \in {"returned", "raised"} =>
            /\ pl_pc[r] = "returned"
            /\ \A k \in 1..Len(pl_batch[r]) : articles[pl_batch[r][k]].processed

-----------------------------------------------------------------------------
(* Claims about ingestion                                                  *)

Candidates(s) == {hash_url(upstream[s][i]) : i \in 1..Len(upstream[s])}

NothingNew(s) ==
    /\ ing_last[s] # None
    /\ Val(ing_last[s]).reported = <<>>
    /\ Val(ing_last[s]).persisted = {}

\* C6 (as written): a second ingestion cycle against unchanged upstream
\* content, with every fetch and every commit of both cycles succeeding,
\* persists zero new rows and reports zero new items for every source.
C6_SecondRunNothingNew ==
    (ing_pc = "feeds" /\ ing_run = 2 /\ ~ing_failed) =>
        \A s \in Sources : NothingNew(s)

\* C6 (amended): an ingestion of a source never reports as new and never
\* persists a link whose hash was in the store before it; it reports and
\* persists nothing when every candidate link of the source was already
\* stored.
C6_StoredLinkNeverNew ==
    \A s \in Sources :
        ing_last[s] # None =>
            LET r == Val(ing_last[s]) IN
            /\ \A i \in 1..Len(r.reported) : hash_url(r.reported[i]) \notin r.before
            /\ r.persisted \cap r.before = {}
            /\ Candidates(s) \subseteq r.before => NothingNew(s)

\* The second cycle is over: every source shows links, all of them stored by
\* the first cycle, and the second cycle reported and persisted nothing.
C6_Witness ==
    /\ ing_pc = "feeds" /\ ing_run = 2
    /\ \A s \in Sources :
          /\ Candidates(s) # {}
          /\ Candidates(s) \subseteq Val(ing_last[s]).before
          /\ NothingNew(s)
    /\ \E i \in 1..Len(art_rows) : art_rows[i].source = "rss"
    /\ \E i \in 1..Len(art_rows) : art_rows[i].source = "web"
    /\ post_rows # <<>>

-----------------------------------------------------------------------------
(* Claims about the scheduler                                              *)

NewsRuns == {runs["news_ingestion"][k] : k \in Slots}

Rank(step) ==
    CASE step = "rss" -> 1 [] step = "web" -> 2 [] step = "pipeline" -> 3
      [] step = "backtest" -> 4 [] step = "sentiment" -> 5

Started(log, step) == \E i \in 1..Len(log) : log[i] = <<step, "start">>

\* The step is over (it returned, or it raised) before position i of the log.
OverBefore(log, step, i) ==
    \E j \in 1..(i - 1) : log[j][1] = step /\ log[j][2] \in {"end", "raise"}

ReturnedBefore(log, step, i) == \E j \in 1..(i - 1) : log[j] = <<step, "end">>

\* C11: within one run of scheduled_ingestion the steps start in the order
\* RSS ingest, web ingest, pipeline, backtest, sentiment scrape; the pipeline
\* starts only after both ingests are over and the backtest only after the
\* pipeline has returned.
C11_StepsInOrder ==
    \A run \in NewsRuns :
        LET log == run.log IN
        /\ \A i, j \in 1..Len(log) :
              (i < j /\ log[i][2] = "start" /\ log[j][2] = "start")
                  => Rank(log[i][1]) < Rank(log[j][1])
        /\ \A i \in 1..Len(log) :
              /\ log[i] = <<"pipeline", "start">> =>
                    ReturnedBefore(log, "rss", i) /\ OverBefore(log, "web", i)
              /\ log[i] = <<"backtest", "start">> =>
                    ReturnedBefore(log, "pipeline", i)

\* A run went through all five steps.
C11_Witness ==
    \E run \in NewsRuns :
        /\ run.pc = "finally"
        /\ run.log = << <<"rss", "start">>, <<"rss", "end">>,
                        <<"web", "start">>, <<"web", "end">>,
                        <<"pipeline", "start">>, <<"pipeline", "end">>,
                        <<"backtest", "start">>, <<"backtest", "end">>,
                        <<"sentiment", "start">>, <<"sentiment", "end">> >>

\* The run's body is over and no exception ended it early.
RanToEnd(run) ==
    /\ run.pc = "finally"
    /\ \A i \in 1..Len(run.log) :
          run.log[i][2] = "raise" => CaughtBy(run.log[i][1]) = "inner"

\* C12 (as written): when RSS and web ingest yield nothing new, the pipeline,
\* the backtest and the sentiment scrape do not run; when the pipeline
\* produced nothing, the backtest does not run.
C12_LaterStepsSkipped ==
    \A run \in NewsRuns :
        RanToEnd(run) =>
            /\ TotalNew(run) = 0 =>
                  /\ ~Started(run.log, "pipeline")
                  /\ ~Started(run.log, "backtest")
                  /\ ~Started(run.log, "sentiment")
            /\ run.signals = Some(0) => ~Started(run.log, "backtest")

\* C12 (amended): the pipeline and the backtest run only when the two ingests
\* reported something new, and then both run; the backtest follows every
\* pipeline that returned, whatever it generated; the sentiment scrape runs
\* in every run that gets to it, also when the ingests reported nothing.
C12_OnlyPipelineGated ==
    \A run \in NewsRuns :
        /\ Started(run.log, "pipeline") => TotalNew(run) > 0
        /\ Started(run.log, "backtest") => TotalNew(run) > 0
        /\ RanToEnd(run) =>
              /\ Started(run.log, "sentiment")
              /\ Started(run.log, "pipeline") <=> TotalNew(run) > 0
              /\ Started(run.log, "backtest") <=> TotalNew(run) > 0

\* Both ingests reported nothing: the run skipped the pipeline and the
\* backtest and did the sentiment scrape.
C12_Witness ==
    \E run \in NewsRuns :
        /\ RanToEnd(run)
        /\ run.rss_new = Some(0) /\ run.web_new = Some(0)
        /\ run.log = << <<"rss", "start">>, <<"rss", "end">>,
                        <<"web", "start">>, <<"web", "end">>,
                        <<"sentiment", "start">>, <<"sentiment", "end">> >>

\* C13: a job never has two runs going at once: a tick that fires while a
\* run of the job is going starts no second run; runs of the two different
\* jobs may go on at the same time.
C13_NoOverlapPerJob ==
    \A job \in JobIds : Cardinality(Running(job)) <= 1

\* A tick of news_ingestion was refused while its run was going, and a run
\* of stock_quotes was going at the same time.
C13_Witness ==
    /\ sch_event = [job |-> "news_ingestion", kind |-> "skipped"]
    /\ Cardinality(Running("news_ingestion")) = 1
    /\ Cardinality(Running("stock_quotes")) = 1

\* C14: no exception of a step leaves a job function; a run that is over has
\* closed the session it opened and has freed its thread; both jobs stay
\* registered, so the next tick of the job starts a run again.
C14_ErrorsStayInsideJob ==
    /\ registered = JobIds
    /\ \A job \in JobIds, k \in Slots :
          LET run == runs[job][k] IN
          /\ ~run.escaped
          /\ run.pc = "idle" <=> run.session # "open"

\* After a run of news_ingestion in which a step raised, the next tick has
\* started a new run; a stock_quotes run in which the update raised is over.
C14_Witness ==
    /\ \E k \in Slots :
          /\ runs["news_ingestion"][k].prev_failed
          /\ runs["news_ingestion"][k].pc = "rss"
    /\ \E k \in Slots :
          /\ runs["stock_quotes"][k].failed
          /\ runs["stock_quotes"][k].session = "closed"
    /\ sch_event = [job |-> "news_ingestion", kind |-> "started"]

\* Saturday or Sunday, or an hour outside 14..21 UTC.
OutsideWindow(now) == now.weekday \in {5, 6} \/ now.hour < 14 \/ now.hour > 21

-----------------------------------------------------------------------------
(* Claims about ingestion runs side by side *)

\* A run that tried to store a link another run stored first.
Lost(r) ==
    /\ rc_pc[r] = "returned"
    /\ \E i \in 1..Len(rc_new[r]), j \in 1..Len(art_rows) :
          /\ rc_new[r][i].url_hash = art_rows[j].url_hash
          /\ art_rows[j].source # r

\* C16: when runs going on at once find the same new link, the store never
\* holds two articles with one url_hash, and no run ends with an error.
C16_OneRowPerHash ==
    /\ \A i, j \in 1..Len(art_rows) :
          i # j => art_rows[i].url_hash # art_rows[j].url_hash
    /\ \A r \in Ingesters : rc_pc[r] # "raised"

\* C16: a feed run came back after another run's article with the same link
\* was stored first, and the store has that link once.
C16_Witness ==
    \E r \in Ingesters :
       /\ Lost(r) /\ rc_kind[r] = "feed"
       /\ rc_pc[CHOOSE o \in Ingesters : o # r] # "idle"
       /\ Cardinality(Hashes(art_rows)) = Len(art_rows)

\* C17: a record that cannot be stored does not cost the run its other
\* records: once a run is back, every record it extracted as new is in the
\* store.
C17_OtherRecordsPersisted ==
    \A r \in Ingesters :
       rc_pc[r] = "returned" =>
          \A i \in 1..Len(rc_new[r]) : rc_new[r][i].url_hash \in Hashes(art_rows)

\* The rows of the store that run r persisted out of what it returned as new.
PersistedOf(r) ==
    {i \in 1..Len(art_rows) :
        art_rows[i].source = r /\ art_rows[i].url_hash \in Hashes(rc_new[r])}

\* C30: once an ingestion of a feed or of a web source is back, the count it
\* reports (the length of the list it returned) is the number of Articles it
\* newly persisted, commits that failed and were rolled back included.
C30_ReportedCountIsPersisted ==
    \A r \in Ingesters :
       rc_pc[r] = "returned" => Len(rc_new[r]) = Cardinality(PersistedOf(r))

-----------------------------------------------------------------------------
(* Claims about a category run *)

Configured == IF ad_pc = "feeds_returned" THEN rss_feeds ELSE news_scrapers

\* C18: when a category run returns, every configured adapter was invoked,
\* the count map has an entry for each configured source and for no other,
\* and a source that failed counts 0.
C18_FailedSourceCountsZero ==
    ad_pc \in {"feeds_returned", "news_returned"} =>
       /\ ad_invoked = Configured
       /\ DOMAIN ad_results = Range(Configured)
       /\ \A name \in ad_failed : ad_results[name] = 0

-----------------------------------------------------------------------------
(* Claims about the analysis stages *)

\* C19: whatever the model call gives (a failure, text that cannot be
\* decoded, a value of the wrong shape), no stage raises and no error leaves
\* process_article.
C19_StagesNeverRaise == st_pc # "raised"

-----------------------------------------------------------------------------
(* Claims about decoding a model response *)

\* The text has a well-formed JSON array or object as a substring.
HasWellFormed(text) ==
    \E i, j \in 1..Len(text) :
       /\ i <= j /\ text[i] \in {"[", "{"}
       /\ IsJson(SubSeq(text, i, j))

\* C20: when the text left after the fence is stripped has a well-formed
\* JSON array or object as a substring, call_claude_json returns a parsed
\* value: it raises only when there is none.
C20_WellFormedSubstringDecoded ==
    dc_pc = "raised" => ~HasWellFormed(dc_raw)

-----------------------------------------------------------------------------
(* Claims about the caller's limit *)

\* C22: whatever adapter was called, it returned at most `limit` records.
C22_AtMostLimit ==
    lm_pc = "called" => Len(lm_returned) <= lm_in.limit

-----------------------------------------------------------------------------
(* Claims about theme detection *)

\* C23: every persisted Theme links at least two distinct Articles.
C23_ThemeLinksTwoArticles ==
    \A t \in th_themes : Cardinality(t) >= 2

\* C24: a theme detection on fewer than two items, by detect_themes or by
\* the on-demand trigger, has made no model call and gives zero themes.
C24_NoCallBelowTwoItems ==
    (th_pc = "returned" /\ th_n < 2) =>
        /\ th_calls = 0
        /\ th_created = 0
        /\ th_added = <<>>

\* C24: detect_themes has returned for a list of one article.
C24_Witness ==
    /\ th_pc = "returned" /\ th_entry = "detect_themes" /\ th_n = 1
    /\ th_calls = 0 /\ th_created = 0

-----------------------------------------------------------------------------
(* Claims about the articles over repeated cycles *)

\* C27: under repeated cycles, every ingested Article is eventually marked
\* processed = True (as long as no pipeline run ends with an escaped
\* exception), also when one cycle ingested more than the per-cycle limit
\* and nothing new arrives afterwards.
C27_EveryArticleProcessed ==
    ([](pl_pc["scheduled"] # "raised")) =>
        \A a \in 1..MaxArticles :
            (a <= Len(articles)) ~> (a <= Len(articles) /\ articles[a].processed)

=============================================================================
